---------------------------- MODULE Spec2Model ----------------------------
(***************************************************************************)
(* A model of the ASS / QRC / LYS lyric transcoder (src/src/main.rs).      *)
(*                                                                         *)
(* Lines are TLA+ strings, exactly the text the program reads and writes.  *)
(* The regular expressions of the program are modelled as scanners over    *)
(* those strings, the format! calls as string concatenation, and the four  *)
(* conversion drivers as state machines that read one line per step.       *)
(*                                                                         *)
(* Numbers: usize is taken to be 64 bits wide.  A digit string is parsed   *)
(* the way str::parse::<usize> does it (failure on a non-ASCII digit or on *)
(* a value above 18446744073709551615); the inputs of the model stay below *)
(* 2^31, so the saturating additions of the program never saturate here.   *)
(***************************************************************************)
EXTENDS Integers, Sequences, FiniteSets, TLC

(***************************************************************************)
(* Program constants.                                                      *)
(***************************************************************************)
MILLISECONDS_PER_SECOND == 1000
MILLISECONDS_PER_MINUTE == 60 * MILLISECONDS_PER_SECOND
MILLISECONDS_PER_HOUR == 60 * MILLISECONDS_PER_MINUTE
CENTISECONDS_TO_MILLISECONDS == 10
K_TAG_MULTIPLIER == 10

LYS_PROPERTY_UNSET == 0
LYS_PROPERTY_LEFT == 1
LYS_PROPERTY_RIGHT == 2
LYS_PROPERTY_NO_BACK_LEFT == 4
LYS_PROPERTY_NO_BACK_RIGHT == 5
LYS_PROPERTY_BACK_UNSET == 6
LYS_PROPERTY_BACK_LEFT == 7
LYS_PROPERTY_BACK_RIGHT == 8

(***************************************************************************)
(* Strings.                                                                *)
(***************************************************************************)
\* A text is the sequence of the bytes of its UTF-8 encoding, as a str of
\* the program is, and a position is the index of a byte, as the positions
\* of the regex crate are.  Each byte is one character of the string: a byte
\* b of 0x80 or more is written as the character U+FF00 + b (U+FF80 to
\* U+FFFF), so that U+5DE6, whose bytes are E5 B7 A6, is the string of the
\* three characters U+FFE5 U+FFB7 U+FFA6.  (TLC keeps the low byte of each
\* character of a string of a queued state and reads a byte of 0x80 or more
\* back as U+FF00 + b: these are the characters that it does not alter.)  A
\* comment at the end of a line names the characters of the program that
\* the strings of the line hold.

\* The bytes i..j of s (s[i-1..j] of the program, whose indices start at 0),
\* empty where the range is.
Sub(s, i, j) ==
    LET a == IF i < 1 THEN 1 ELSE i
        b == IF j > Len(s) THEN Len(s) ELSE j
    IN  IF a > b THEN "" ELSE SubSeq(s, a, b)

\* The character that starts at byte i of s: the bytes of its encoding, two
\* after a first byte C2 to DF, three after E0 to EF, four after F0 to F4.
At(s, i) ==
    LET first == Sub(s, i, i)
    IN  IF first \in {"ￂ", "ￃ", "ￄ", "ￅ", "ￆ", "ￇ", "￈", "￉", "ￊ", "ￋ",
                      "ￌ", "ￍ", "ￎ", "ￏ", "￐", "￑", "ￒ", "ￓ", "ￔ", "ￕ",
                      "ￖ", "ￗ", "￘", "￙", "ￚ", "ￛ", "ￜ", "￝", "￞", "￟"}
            THEN Sub(s, i, i + 1)
        ELSE IF first \in {"￠", "￡", "￢", "￣", "￤", "￥", "￦", "￧", "￨", "￩",
                      "￪", "￫", "￬", "￭", "￮", "￯"}
            THEN Sub(s, i, i + 2)
        ELSE IF first \in {"￰", "￱", "￲", "￳", "￴"}
            THEN Sub(s, i, i + 3)
        ELSE first

From(s, i) == Sub(s, i, Len(s))

StartsWithAt(s, i, p) == Sub(s, i, i + Len(p) - 1) = p

StartsWith(s, p) == StartsWithAt(s, 1, p)

AsciiDigits == {"0", "1", "2", "3", "4", "5", "6", "7", "8", "9"}

\* The class \d of the regex crate is Unicode-aware: it is every decimal
\* digit (general category Nd, here of Unicode 16.0), ten to a row.
RegexDigits ==
    AsciiDigits \cup
     {
       \* U+0660 to U+0669
       "￙ﾠ", "￙ﾡ", "￙ﾢ", "￙ﾣ", "￙ﾤ", "￙ﾥ", "￙ﾦ", "￙ﾧ", "￙ﾨ", "￙ﾩ",
       \* U+06F0 to U+06F9
       "ￛﾰ", "ￛﾱ", "ￛﾲ", "ￛﾳ", "ￛﾴ", "ￛﾵ", "ￛﾶ", "ￛﾷ", "ￛﾸ", "ￛﾹ",
       \* U+07C0 to U+07C9
       "￟ﾀ", "￟ﾁ", "￟ﾂ", "￟ﾃ", "￟ﾄ", "￟ﾅ", "￟ﾆ", "￟ﾇ", "￟ﾈ", "￟ﾉ",
       \* U+0966 to U+096F
       "￠ﾥﾦ", "￠ﾥﾧ", "￠ﾥﾨ", "￠ﾥﾩ", "￠ﾥﾪ", "￠ﾥﾫ", "￠ﾥﾬ", "￠ﾥﾭ", "￠ﾥﾮ", "￠ﾥﾯ",
       \* U+09E6 to U+09EF
       "￠ﾧﾦ", "￠ﾧﾧ", "￠ﾧﾨ", "￠ﾧﾩ", "￠ﾧﾪ", "￠ﾧﾫ", "￠ﾧﾬ", "￠ﾧﾭ", "￠ﾧﾮ", "￠ﾧﾯ",
       \* U+0A66 to U+0A6F
       "￠ﾩﾦ", "￠ﾩﾧ", "￠ﾩﾨ", "￠ﾩﾩ", "￠ﾩﾪ", "￠ﾩﾫ", "￠ﾩﾬ", "￠ﾩﾭ", "￠ﾩﾮ", "￠ﾩﾯ",
       \* U+0AE6 to U+0AEF
       "￠ﾫﾦ", "￠ﾫﾧ", "￠ﾫﾨ", "￠ﾫﾩ", "￠ﾫﾪ", "￠ﾫﾫ", "￠ﾫﾬ", "￠ﾫﾭ", "￠ﾫﾮ", "￠ﾫﾯ",
       \* U+0B66 to U+0B6F
       "￠ﾭﾦ", "￠ﾭﾧ", "￠ﾭﾨ", "￠ﾭﾩ", "￠ﾭﾪ", "￠ﾭﾫ", "￠ﾭﾬ", "￠ﾭﾭ", "￠ﾭﾮ", "￠ﾭﾯ",
       \* U+0BE6 to U+0BEF
       "￠ﾯﾦ", "￠ﾯﾧ", "￠ﾯﾨ", "￠ﾯﾩ", "￠ﾯﾪ", "￠ﾯﾫ", "￠ﾯﾬ", "￠ﾯﾭ", "￠ﾯﾮ", "￠ﾯﾯ",
       \* U+0C66 to U+0C6F
       "￠ﾱﾦ", "￠ﾱﾧ", "￠ﾱﾨ", "￠ﾱﾩ", "￠ﾱﾪ", "￠ﾱﾫ", "￠ﾱﾬ", "￠ﾱﾭ", "￠ﾱﾮ", "￠ﾱﾯ",
       \* U+0CE6 to U+0CEF
       "￠ﾳﾦ", "￠ﾳﾧ", "￠ﾳﾨ", "￠ﾳﾩ", "￠ﾳﾪ", "￠ﾳﾫ", "￠ﾳﾬ", "￠ﾳﾭ", "￠ﾳﾮ", "￠ﾳﾯ",
       \* U+0D66 to U+0D6F
       "￠ﾵﾦ", "￠ﾵﾧ", "￠ﾵﾨ", "￠ﾵﾩ", "￠ﾵﾪ", "￠ﾵﾫ", "￠ﾵﾬ", "￠ﾵﾭ", "￠ﾵﾮ", "￠ﾵﾯ",
       \* U+0DE6 to U+0DEF
       "￠ﾷﾦ", "￠ﾷﾧ", "￠ﾷﾨ", "￠ﾷﾩ", "￠ﾷﾪ", "￠ﾷﾫ", "￠ﾷﾬ", "￠ﾷﾭ", "￠ﾷﾮ", "￠ﾷﾯ",
       \* U+0E50 to U+0E59
       "￠ﾹﾐ", "￠ﾹﾑ", "￠ﾹﾒ", "￠ﾹﾓ", "￠ﾹﾔ", "￠ﾹﾕ", "￠ﾹﾖ", "￠ﾹﾗ", "￠ﾹﾘ", "￠ﾹﾙ",
       \* U+0ED0 to U+0ED9
       "￠ﾻﾐ", "￠ﾻﾑ", "￠ﾻﾒ", "￠ﾻﾓ", "￠ﾻﾔ", "￠ﾻﾕ", "￠ﾻﾖ", "￠ﾻﾗ", "￠ﾻﾘ", "￠ﾻﾙ",
       \* U+0F20 to U+0F29
       "￠ﾼﾠ", "￠ﾼﾡ", "￠ﾼﾢ", "￠ﾼﾣ", "￠ﾼﾤ", "￠ﾼﾥ", "￠ﾼﾦ", "￠ﾼﾧ", "￠ﾼﾨ", "￠ﾼﾩ",
       \* U+1040 to U+1049
       "￡ﾁﾀ", "￡ﾁﾁ", "￡ﾁﾂ", "￡ﾁﾃ", "￡ﾁﾄ", "￡ﾁﾅ", "￡ﾁﾆ", "￡ﾁﾇ", "￡ﾁﾈ", "￡ﾁﾉ",
       \* U+1090 to U+1099
       "￡ﾂﾐ", "￡ﾂﾑ", "￡ﾂﾒ", "￡ﾂﾓ", "￡ﾂﾔ", "￡ﾂﾕ", "￡ﾂﾖ", "￡ﾂﾗ", "￡ﾂﾘ", "￡ﾂﾙ",
       \* U+17E0 to U+17E9
       "￡ﾟﾠ", "￡ﾟﾡ", "￡ﾟﾢ", "￡ﾟﾣ", "￡ﾟﾤ", "￡ﾟﾥ", "￡ﾟﾦ", "￡ﾟﾧ", "￡ﾟﾨ", "￡ﾟﾩ",
       \* U+1810 to U+1819
       "￡ﾠﾐ", "￡ﾠﾑ", "￡ﾠﾒ", "￡ﾠﾓ", "￡ﾠﾔ", "￡ﾠﾕ", "￡ﾠﾖ", "￡ﾠﾗ", "￡ﾠﾘ", "￡ﾠﾙ",
       \* U+1946 to U+194F
       "￡ﾥﾆ", "￡ﾥﾇ", "￡ﾥﾈ", "￡ﾥﾉ", "￡ﾥﾊ", "￡ﾥﾋ", "￡ﾥﾌ", "￡ﾥﾍ", "￡ﾥﾎ", "￡ﾥﾏ",
       \* U+19D0 to U+19D9
       "￡ﾧﾐ", "￡ﾧﾑ", "￡ﾧﾒ", "￡ﾧﾓ", "￡ﾧﾔ", "￡ﾧﾕ", "￡ﾧﾖ", "￡ﾧﾗ", "￡ﾧﾘ", "￡ﾧﾙ",
       \* U+1A80 to U+1A89
       "￡ﾪﾀ", "￡ﾪﾁ", "￡ﾪﾂ", "￡ﾪﾃ", "￡ﾪﾄ", "￡ﾪﾅ", "￡ﾪﾆ", "￡ﾪﾇ", "￡ﾪﾈ", "￡ﾪﾉ",
       \* U+1A90 to U+1A99
       "￡ﾪﾐ", "￡ﾪﾑ", "￡ﾪﾒ", "￡ﾪﾓ", "￡ﾪﾔ", "￡ﾪﾕ", "￡ﾪﾖ", "￡ﾪﾗ", "￡ﾪﾘ", "￡ﾪﾙ",
       \* U+1B50 to U+1B59
       "￡ﾭﾐ", "￡ﾭﾑ", "￡ﾭﾒ", "￡ﾭﾓ", "￡ﾭﾔ", "￡ﾭﾕ", "￡ﾭﾖ", "￡ﾭﾗ", "￡ﾭﾘ", "￡ﾭﾙ",
       \* U+1BB0 to U+1BB9
       "￡ﾮﾰ", "￡ﾮﾱ", "￡ﾮﾲ", "￡ﾮﾳ", "￡ﾮﾴ", "￡ﾮﾵ", "￡ﾮﾶ", "￡ﾮﾷ", "￡ﾮﾸ", "￡ﾮﾹ",
       \* U+1C40 to U+1C49
       "￡ﾱﾀ", "￡ﾱﾁ", "￡ﾱﾂ", "￡ﾱﾃ", "￡ﾱﾄ", "￡ﾱﾅ", "￡ﾱﾆ", "￡ﾱﾇ", "￡ﾱﾈ", "￡ﾱﾉ",
       \* U+1C50 to U+1C59
       "￡ﾱﾐ", "￡ﾱﾑ", "￡ﾱﾒ", "￡ﾱﾓ", "￡ﾱﾔ", "￡ﾱﾕ", "￡ﾱﾖ", "￡ﾱﾗ", "￡ﾱﾘ", "￡ﾱﾙ",
       \* U+A620 to U+A629
       "￪ﾘﾠ", "￪ﾘﾡ", "￪ﾘﾢ", "￪ﾘﾣ", "￪ﾘﾤ", "￪ﾘﾥ", "￪ﾘﾦ", "￪ﾘﾧ", "￪ﾘﾨ", "￪ﾘﾩ",
       \* U+A8D0 to U+A8D9
       "￪ﾣﾐ", "￪ﾣﾑ", "￪ﾣﾒ", "￪ﾣﾓ", "￪ﾣﾔ", "￪ﾣﾕ", "￪ﾣﾖ", "￪ﾣﾗ", "￪ﾣﾘ", "￪ﾣﾙ",
       \* U+A900 to U+A909
       "￪ﾤﾀ", "￪ﾤﾁ", "￪ﾤﾂ", "￪ﾤﾃ", "￪ﾤﾄ", "￪ﾤﾅ", "￪ﾤﾆ", "￪ﾤﾇ", "￪ﾤﾈ", "￪ﾤﾉ",
       \* U+A9D0 to U+A9D9
       "￪ﾧﾐ", "￪ﾧﾑ", "￪ﾧﾒ", "￪ﾧﾓ", "￪ﾧﾔ", "￪ﾧﾕ", "￪ﾧﾖ", "￪ﾧﾗ", "￪ﾧﾘ", "￪ﾧﾙ",
       \* U+A9F0 to U+A9F9
       "￪ﾧﾰ", "￪ﾧﾱ", "￪ﾧﾲ", "￪ﾧﾳ", "￪ﾧﾴ", "￪ﾧﾵ", "￪ﾧﾶ", "￪ﾧﾷ", "￪ﾧﾸ", "￪ﾧﾹ",
       \* U+AA50 to U+AA59
       "￪ﾩﾐ", "￪ﾩﾑ", "￪ﾩﾒ", "￪ﾩﾓ", "￪ﾩﾔ", "￪ﾩﾕ", "￪ﾩﾖ", "￪ﾩﾗ", "￪ﾩﾘ", "￪ﾩﾙ",
       \* U+ABF0 to U+ABF9
       "￪ﾯﾰ", "￪ﾯﾱ", "￪ﾯﾲ", "￪ﾯﾳ", "￪ﾯﾴ", "￪ﾯﾵ", "￪ﾯﾶ", "￪ﾯﾷ", "￪ﾯﾸ", "￪ﾯﾹ",
       \* U+FF10 to U+FF19
       "￯ﾼﾐ", "￯ﾼﾑ", "￯ﾼﾒ", "￯ﾼﾓ", "￯ﾼﾔ", "￯ﾼﾕ", "￯ﾼﾖ", "￯ﾼﾗ", "￯ﾼﾘ", "￯ﾼﾙ",
       \* U+104A0 to U+104A9
       "￰ﾐﾒﾠ", "￰ﾐﾒﾡ", "￰ﾐﾒﾢ", "￰ﾐﾒﾣ", "￰ﾐﾒﾤ", "￰ﾐﾒﾥ", "￰ﾐﾒﾦ", "￰ﾐﾒﾧ", "￰ﾐﾒﾨ", "￰ﾐﾒﾩ",
       \* U+10D30 to U+10D39
       "￰ﾐﾴﾰ", "￰ﾐﾴﾱ", "￰ﾐﾴﾲ", "￰ﾐﾴﾳ", "￰ﾐﾴﾴ", "￰ﾐﾴﾵ", "￰ﾐﾴﾶ", "￰ﾐﾴﾷ", "￰ﾐﾴﾸ", "￰ﾐﾴﾹ",
       \* U+10D40 to U+10D49
       "￰ﾐﾵﾀ", "￰ﾐﾵﾁ", "￰ﾐﾵﾂ", "￰ﾐﾵﾃ", "￰ﾐﾵﾄ", "￰ﾐﾵﾅ", "￰ﾐﾵﾆ", "￰ﾐﾵﾇ", "￰ﾐﾵﾈ", "￰ﾐﾵﾉ",
       \* U+11066 to U+1106F
       "￰ﾑﾁﾦ", "￰ﾑﾁﾧ", "￰ﾑﾁﾨ", "￰ﾑﾁﾩ", "￰ﾑﾁﾪ", "￰ﾑﾁﾫ", "￰ﾑﾁﾬ", "￰ﾑﾁﾭ", "￰ﾑﾁﾮ", "￰ﾑﾁﾯ",
       \* U+110F0 to U+110F9
       "￰ﾑﾃﾰ", "￰ﾑﾃﾱ", "￰ﾑﾃﾲ", "￰ﾑﾃﾳ", "￰ﾑﾃﾴ", "￰ﾑﾃﾵ", "￰ﾑﾃﾶ", "￰ﾑﾃﾷ", "￰ﾑﾃﾸ", "￰ﾑﾃﾹ",
       \* U+11136 to U+1113F
       "￰ﾑﾄﾶ", "￰ﾑﾄﾷ", "￰ﾑﾄﾸ", "￰ﾑﾄﾹ", "￰ﾑﾄﾺ", "￰ﾑﾄﾻ", "￰ﾑﾄﾼ", "￰ﾑﾄﾽ", "￰ﾑﾄﾾ", "￰ﾑﾄ﾿",
       \* U+111D0 to U+111D9
       "￰ﾑﾇﾐ", "￰ﾑﾇﾑ", "￰ﾑﾇﾒ", "￰ﾑﾇﾓ", "￰ﾑﾇﾔ", "￰ﾑﾇﾕ", "￰ﾑﾇﾖ", "￰ﾑﾇﾗ", "￰ﾑﾇﾘ", "￰ﾑﾇﾙ",
       \* U+112F0 to U+112F9
       "￰ﾑﾋﾰ", "￰ﾑﾋﾱ", "￰ﾑﾋﾲ", "￰ﾑﾋﾳ", "￰ﾑﾋﾴ", "￰ﾑﾋﾵ", "￰ﾑﾋﾶ", "￰ﾑﾋﾷ", "￰ﾑﾋﾸ", "￰ﾑﾋﾹ",
       \* U+11450 to U+11459
       "￰ﾑﾑﾐ", "￰ﾑﾑﾑ", "￰ﾑﾑﾒ", "￰ﾑﾑﾓ", "￰ﾑﾑﾔ", "￰ﾑﾑﾕ", "￰ﾑﾑﾖ", "￰ﾑﾑﾗ", "￰ﾑﾑﾘ", "￰ﾑﾑﾙ",
       \* U+114D0 to U+114D9
       "￰ﾑﾓﾐ", "￰ﾑﾓﾑ", "￰ﾑﾓﾒ", "￰ﾑﾓﾓ", "￰ﾑﾓﾔ", "￰ﾑﾓﾕ", "￰ﾑﾓﾖ", "￰ﾑﾓﾗ", "￰ﾑﾓﾘ", "￰ﾑﾓﾙ",
       \* U+11650 to U+11659
       "￰ﾑﾙﾐ", "￰ﾑﾙﾑ", "￰ﾑﾙﾒ", "￰ﾑﾙﾓ", "￰ﾑﾙﾔ", "￰ﾑﾙﾕ", "￰ﾑﾙﾖ", "￰ﾑﾙﾗ", "￰ﾑﾙﾘ", "￰ﾑﾙﾙ",
       \* U+116C0 to U+116C9
       "￰ﾑﾛﾀ", "￰ﾑﾛﾁ", "￰ﾑﾛﾂ", "￰ﾑﾛﾃ", "￰ﾑﾛﾄ", "￰ﾑﾛﾅ", "￰ﾑﾛﾆ", "￰ﾑﾛﾇ", "￰ﾑﾛﾈ", "￰ﾑﾛﾉ",
       \* U+116D0 to U+116D9
       "￰ﾑﾛﾐ", "￰ﾑﾛﾑ", "￰ﾑﾛﾒ", "￰ﾑﾛﾓ", "￰ﾑﾛﾔ", "￰ﾑﾛﾕ", "￰ﾑﾛﾖ", "￰ﾑﾛﾗ", "￰ﾑﾛﾘ", "￰ﾑﾛﾙ",
       \* U+116DA to U+116E3
       "￰ﾑﾛﾚ", "￰ﾑﾛﾛ", "￰ﾑﾛﾜ", "￰ﾑﾛﾝ", "￰ﾑﾛﾞ", "￰ﾑﾛﾟ", "￰ﾑﾛﾠ", "￰ﾑﾛﾡ", "￰ﾑﾛﾢ", "￰ﾑﾛﾣ",
       \* U+11730 to U+11739
       "￰ﾑﾜﾰ", "￰ﾑﾜﾱ", "￰ﾑﾜﾲ", "￰ﾑﾜﾳ", "￰ﾑﾜﾴ", "￰ﾑﾜﾵ", "￰ﾑﾜﾶ", "￰ﾑﾜﾷ", "￰ﾑﾜﾸ", "￰ﾑﾜﾹ",
       \* U+118E0 to U+118E9
       "￰ﾑﾣﾠ", "￰ﾑﾣﾡ", "￰ﾑﾣﾢ", "￰ﾑﾣﾣ", "￰ﾑﾣﾤ", "￰ﾑﾣﾥ", "￰ﾑﾣﾦ", "￰ﾑﾣﾧ", "￰ﾑﾣﾨ", "￰ﾑﾣﾩ",
       \* U+11950 to U+11959
       "￰ﾑﾥﾐ", "￰ﾑﾥﾑ", "￰ﾑﾥﾒ", "￰ﾑﾥﾓ", "￰ﾑﾥﾔ", "￰ﾑﾥﾕ", "￰ﾑﾥﾖ", "￰ﾑﾥﾗ", "￰ﾑﾥﾘ", "￰ﾑﾥﾙ",
       \* U+11BF0 to U+11BF9
       "￰ﾑﾯﾰ", "￰ﾑﾯﾱ", "￰ﾑﾯﾲ", "￰ﾑﾯﾳ", "￰ﾑﾯﾴ", "￰ﾑﾯﾵ", "￰ﾑﾯﾶ", "￰ﾑﾯﾷ", "￰ﾑﾯﾸ", "￰ﾑﾯﾹ",
       \* U+11C50 to U+11C59
       "￰ﾑﾱﾐ", "￰ﾑﾱﾑ", "￰ﾑﾱﾒ", "￰ﾑﾱﾓ", "￰ﾑﾱﾔ", "￰ﾑﾱﾕ", "￰ﾑﾱﾖ", "￰ﾑﾱﾗ", "￰ﾑﾱﾘ", "￰ﾑﾱﾙ",
       \* U+11D50 to U+11D59
       "￰ﾑﾵﾐ", "￰ﾑﾵﾑ", "￰ﾑﾵﾒ", "￰ﾑﾵﾓ", "￰ﾑﾵﾔ", "￰ﾑﾵﾕ", "￰ﾑﾵﾖ", "￰ﾑﾵﾗ", "￰ﾑﾵﾘ", "￰ﾑﾵﾙ",
       \* U+11DA0 to U+11DA9
       "￰ﾑﾶﾠ", "￰ﾑﾶﾡ", "￰ﾑﾶﾢ", "￰ﾑﾶﾣ", "￰ﾑﾶﾤ", "￰ﾑﾶﾥ", "￰ﾑﾶﾦ", "￰ﾑﾶﾧ", "￰ﾑﾶﾨ", "￰ﾑﾶﾩ",
       \* U+11F50 to U+11F59
       "￰ﾑﾽﾐ", "￰ﾑﾽﾑ", "￰ﾑﾽﾒ", "￰ﾑﾽﾓ", "￰ﾑﾽﾔ", "￰ﾑﾽﾕ", "￰ﾑﾽﾖ", "￰ﾑﾽﾗ", "￰ﾑﾽﾘ", "￰ﾑﾽﾙ",
       \* U+16130 to U+16139
       "￰ﾖﾄﾰ", "￰ﾖﾄﾱ", "￰ﾖﾄﾲ", "￰ﾖﾄﾳ", "￰ﾖﾄﾴ", "￰ﾖﾄﾵ", "￰ﾖﾄﾶ", "￰ﾖﾄﾷ", "￰ﾖﾄﾸ", "￰ﾖﾄﾹ",
       \* U+16A60 to U+16A69
       "￰ﾖﾩﾠ", "￰ﾖﾩﾡ", "￰ﾖﾩﾢ", "￰ﾖﾩﾣ", "￰ﾖﾩﾤ", "￰ﾖﾩﾥ", "￰ﾖﾩﾦ", "￰ﾖﾩﾧ", "￰ﾖﾩﾨ", "￰ﾖﾩﾩ",
       \* U+16AC0 to U+16AC9
       "￰ﾖﾫﾀ", "￰ﾖﾫﾁ", "￰ﾖﾫﾂ", "￰ﾖﾫﾃ", "￰ﾖﾫﾄ", "￰ﾖﾫﾅ", "￰ﾖﾫﾆ", "￰ﾖﾫﾇ", "￰ﾖﾫﾈ", "￰ﾖﾫﾉ",
       \* U+16B50 to U+16B59
       "￰ﾖﾭﾐ", "￰ﾖﾭﾑ", "￰ﾖﾭﾒ", "￰ﾖﾭﾓ", "￰ﾖﾭﾔ", "￰ﾖﾭﾕ", "￰ﾖﾭﾖ", "￰ﾖﾭﾗ", "￰ﾖﾭﾘ", "￰ﾖﾭﾙ",
       \* U+16D70 to U+16D79
       "￰ﾖﾵﾰ", "￰ﾖﾵﾱ", "￰ﾖﾵﾲ", "￰ﾖﾵﾳ", "￰ﾖﾵﾴ", "￰ﾖﾵﾵ", "￰ﾖﾵﾶ", "￰ﾖﾵﾷ", "￰ﾖﾵﾸ", "￰ﾖﾵﾹ",
       \* U+1CCF0 to U+1CCF9
       "￰ﾜﾳﾰ", "￰ﾜﾳﾱ", "￰ﾜﾳﾲ", "￰ﾜﾳﾳ", "￰ﾜﾳﾴ", "￰ﾜﾳﾵ", "￰ﾜﾳﾶ", "￰ﾜﾳﾷ", "￰ﾜﾳﾸ", "￰ﾜﾳﾹ",
       \* U+1D7CE to U+1D7D7
       "￰ﾝﾟﾎ", "￰ﾝﾟﾏ", "￰ﾝﾟﾐ", "￰ﾝﾟﾑ", "￰ﾝﾟﾒ", "￰ﾝﾟﾓ", "￰ﾝﾟﾔ", "￰ﾝﾟﾕ", "￰ﾝﾟﾖ", "￰ﾝﾟﾗ",
       \* U+1D7D8 to U+1D7E1
       "￰ﾝﾟﾘ", "￰ﾝﾟﾙ", "￰ﾝﾟﾚ", "￰ﾝﾟﾛ", "￰ﾝﾟﾜ", "￰ﾝﾟﾝ", "￰ﾝﾟﾞ", "￰ﾝﾟﾟ", "￰ﾝﾟﾠ", "￰ﾝﾟﾡ",
       \* U+1D7E2 to U+1D7EB
       "￰ﾝﾟﾢ", "￰ﾝﾟﾣ", "￰ﾝﾟﾤ", "￰ﾝﾟﾥ", "￰ﾝﾟﾦ", "￰ﾝﾟﾧ", "￰ﾝﾟﾨ", "￰ﾝﾟﾩ", "￰ﾝﾟﾪ", "￰ﾝﾟﾫ",
       \* U+1D7EC to U+1D7F5
       "￰ﾝﾟﾬ", "￰ﾝﾟﾭ", "￰ﾝﾟﾮ", "￰ﾝﾟﾯ", "￰ﾝﾟﾰ", "￰ﾝﾟﾱ", "￰ﾝﾟﾲ", "￰ﾝﾟﾳ", "￰ﾝﾟﾴ", "￰ﾝﾟﾵ",
       \* U+1D7F6 to U+1D7FF
       "￰ﾝﾟﾶ", "￰ﾝﾟﾷ", "￰ﾝﾟﾸ", "￰ﾝﾟﾹ", "￰ﾝﾟﾺ", "￰ﾝﾟﾻ", "￰ﾝﾟﾼ", "￰ﾝﾟﾽ", "￰ﾝﾟﾾ", "￰ﾝﾟ﾿",
       \* U+1E140 to U+1E149
       "￰ﾞﾅﾀ", "￰ﾞﾅﾁ", "￰ﾞﾅﾂ", "￰ﾞﾅﾃ", "￰ﾞﾅﾄ", "￰ﾞﾅﾅ", "￰ﾞﾅﾆ", "￰ﾞﾅﾇ", "￰ﾞﾅﾈ", "￰ﾞﾅﾉ",
       \* U+1E2F0 to U+1E2F9
       "￰ﾞﾋﾰ", "￰ﾞﾋﾱ", "￰ﾞﾋﾲ", "￰ﾞﾋﾳ", "￰ﾞﾋﾴ", "￰ﾞﾋﾵ", "￰ﾞﾋﾶ", "￰ﾞﾋﾷ", "￰ﾞﾋﾸ", "￰ﾞﾋﾹ",
       \* U+1E4F0 to U+1E4F9
       "￰ﾞﾓﾰ", "￰ﾞﾓﾱ", "￰ﾞﾓﾲ", "￰ﾞﾓﾳ", "￰ﾞﾓﾴ", "￰ﾞﾓﾵ", "￰ﾞﾓﾶ", "￰ﾞﾓﾷ", "￰ﾞﾓﾸ", "￰ﾞﾓﾹ",
       \* U+1E5F1 to U+1E5FA
       "￰ﾞﾗﾱ", "￰ﾞﾗﾲ", "￰ﾞﾗﾳ", "￰ﾞﾗﾴ", "￰ﾞﾗﾵ", "￰ﾞﾗﾶ", "￰ﾞﾗﾷ", "￰ﾞﾗﾸ", "￰ﾞﾗﾹ", "￰ﾞﾗﾺ",
       \* U+1E950 to U+1E959
       "￰ﾞﾥﾐ", "￰ﾞﾥﾑ", "￰ﾞﾥﾒ", "￰ﾞﾥﾓ", "￰ﾞﾥﾔ", "￰ﾞﾥﾕ", "￰ﾞﾥﾖ", "￰ﾞﾥﾗ", "￰ﾞﾥﾘ", "￰ﾞﾥﾙ",
       \* U+1FBF0 to U+1FBF9
       "￰ﾟﾯﾰ", "￰ﾟﾯﾱ", "￰ﾟﾯﾲ", "￰ﾟﾯﾳ", "￰ﾟﾯﾴ", "￰ﾟﾯﾵ", "￰ﾟﾯﾶ", "￰ﾟﾯﾷ", "￰ﾟﾯﾸ", "￰ﾟﾯﾹ"
     }

\* char::is_whitespace and the class \s of the regex crate, for trim,
\* trim_start, split_whitespace and \s: the characters of the property
\* White_Space, which are U+0009 to U+000D, the space, U+0085, U+00A0,
\* U+1680, U+2000 to U+200A, U+2028, U+2029, U+202F, U+205F and U+3000.
WhiteSpace ==
    {" ", "\t", "\n", "", "\f", "\r",
     "ￂﾅ", "ￂﾠ", "￡ﾚﾀ", "￢ﾀﾀ", "￢ﾀﾁ", "￢ﾀﾂ", "￢ﾀﾃ", "￢ﾀﾄ", "￢ﾀﾅ", "￢ﾀﾆ", "￢ﾀﾇ", "￢ﾀﾈ", "￢ﾀﾉ", "￢ﾀﾊ", "￢ﾀﾨ", "￢ﾀﾩ", "￢ﾀﾯ", "￢ﾁﾟ", "￣ﾀﾀ"}

DigitVal(c) ==
    CASE c = "0" -> 0 [] c = "1" -> 1 [] c = "2" -> 2 [] c = "3" -> 3
      [] c = "4" -> 4 [] c = "5" -> 5 [] c = "6" -> 6 [] c = "7" -> 7
      [] c = "8" -> 8 [] c = "9" -> 9

\* The position after the longest run of characters of `set` that starts at i.
RECURSIVE RunEnd(_, _, _)
RunEnd(s, i, set) ==
    IF i <= Len(s) /\ At(s, i) \in set
    THEN RunEnd(s, i + Len(At(s, i)), set)
    ELSE i

\* The position after the longest run of characters outside `set` from i.
RECURSIVE RunEndNot(_, _, _)
RunEndNot(s, i, set) ==
    IF i <= Len(s) /\ At(s, i) \notin set
    THEN RunEndNot(s, i + Len(At(s, i)), set)
    ELSE i

\* The position of the first occurrence of p in s at or after i; 0 if none.
RECURSIVE Find(_, _, _)
Find(s, p, i) ==
    IF i + Len(p) - 1 > Len(s) THEN 0
    ELSE IF StartsWithAt(s, i, p) THEN i
    ELSE Find(s, p, i + 1)

Contains(s, p) == Find(s, p, 1) # 0

\* str::replace(p, ""): every non-overlapping occurrence of p removed.
RECURSIVE RemoveAll(_, _)
RemoveAll(s, p) ==
    LET at == Find(s, p, 1)
    IN  IF at = 0 THEN s
        ELSE Sub(s, 1, at - 1) \o RemoveAll(From(s, at + Len(p)), p)

trim_start(s) == From(s, RunEnd(s, 1, WhiteSpace))

RECURSIVE trim_end(_)
trim_end(s) ==
    LET last == { w \in WhiteSpace :
                    Len(w) <= Len(s) /\ Sub(s, Len(s) - Len(w) + 1, Len(s)) = w }
    IN  IF last = {} THEN s
        ELSE trim_end(Sub(s, 1, Len(s) - Len(CHOOSE w \in last : TRUE)))

trim(s) == trim_end(trim_start(s))

\* u8::to_ascii_lowercase: the capitals A to Z are lowered, every other
\* character is kept.
LowerChar(c) ==
    CASE c = "A" -> "a" [] c = "B" -> "b" [] c = "C" -> "c" [] c = "D" -> "d"
      [] c = "E" -> "e" [] c = "F" -> "f" [] c = "G" -> "g" [] c = "H" -> "h"
      [] c = "I" -> "i" [] c = "J" -> "j" [] c = "K" -> "k" [] c = "L" -> "l"
      [] c = "M" -> "m" [] c = "N" -> "n" [] c = "O" -> "o" [] c = "P" -> "p"
      [] c = "Q" -> "q" [] c = "R" -> "r" [] c = "S" -> "s" [] c = "T" -> "t"
      [] c = "U" -> "u" [] c = "V" -> "v" [] c = "W" -> "w" [] c = "X" -> "x"
      [] c = "Y" -> "y" [] c = "Z" -> "z"
      [] OTHER -> c

RECURSIVE to_ascii_lowercase(_)
to_ascii_lowercase(s) ==
    IF s = "" THEN "" ELSE LowerChar(Head(s)) \o to_ascii_lowercase(Tail(s))

eq_ignore_ascii_case(a, b) == to_ascii_lowercase(a) = to_ascii_lowercase(b)

(***************************************************************************)
(* Numbers as text.                                                        *)
(***************************************************************************)
UsizeMaxDigits == "18446744073709551615"

\* a < b or a = b for two digit strings of the same length.
RECURSIVE DigitsLeq(_, _)
DigitsLeq(a, b) ==
    IF a = "" THEN TRUE
    ELSE IF DigitVal(Head(a)) < DigitVal(Head(b)) THEN TRUE
    ELSE IF DigitVal(Head(a)) > DigitVal(Head(b)) THEN FALSE
    ELSE DigitsLeq(Tail(a), Tail(b))

RECURSIVE DecValue(_)
DecValue(s) ==
    IF s = "" THEN 0
    ELSE 10 * DecValue(Sub(s, 1, Len(s) - 1)) + DigitVal(At(s, Len(s)))

\* str::parse::<usize>(): an optional '+', then ASCII digits only, and the
\* value must fit 64 bits.  body is the text after the sign, sig the text
\* after its leading zeros.
ParseDigits(body, sig) ==
    IF body = "" \/ RunEnd(body, 1, AsciiDigits) # Len(body) + 1
        THEN [ok |-> FALSE, v |-> 0]
    ELSE IF Len(sig) > Len(UsizeMaxDigits)
            \/ (Len(sig) = Len(UsizeMaxDigits) /\ ~DigitsLeq(sig, UsizeMaxDigits))
        THEN [ok |-> FALSE, v |-> 0]
    ELSE [ok |-> TRUE, v |-> DecValue(sig)]

ParseUnsigned(body) == ParseDigits(body, From(body, RunEnd(body, 1, {"0"})))

ParseUsize(s) == ParseUnsigned(IF StartsWith(s, "+") THEN Tail(s) ELSE s)

\* format!("{}", n) and format!("{:02}", n).
Fmt(n) == ToString(n)

Fmt02(n) == IF n < 10 THEN "0" \o ToString(n) ELSE ToString(n)

\* usize::saturating_add: the sum, or usize::MAX where the sum is above it.
\* A sum of at most 2147483647 is below usize::MAX; the first test spares the
\* evaluation of usize::MAX on such numbers.
saturating_add(a, b) ==
    IF a + b <= 2147483647 THEN a + b
    ELSE IF a + b > DecValue(UsizeMaxDigits) THEN DecValue(UsizeMaxDigits)
    ELSE a + b

\* usize::saturating_sub giving the distance of the two numbers.
saturating_sub_distance(a, b) == IF a >= b THEN a - b ELSE b - a

saturating_sub(a, b) == IF a >= b THEN a - b ELSE 0

(***************************************************************************)
(* Time codec.                                                             *)
(***************************************************************************)
\* milliseconds_to_time with the centiseconds rounded to the nearest instead
\* of truncated.
milliseconds_to_time_rounded(ms) ==
    LET hours        == ms \div MILLISECONDS_PER_HOUR
        minutes      == (ms % MILLISECONDS_PER_HOUR) \div MILLISECONDS_PER_MINUTE
        seconds      == (ms % MILLISECONDS_PER_MINUTE) \div MILLISECONDS_PER_SECOND
        centiseconds == ((ms % MILLISECONDS_PER_SECOND) + 5)
                            \div CENTISECONDS_TO_MILLISECONDS
    IN  Fmt(hours) \o ":" \o Fmt02(minutes) \o ":" \o Fmt02(seconds)
            \o "." \o Fmt02(centiseconds)

\* milliseconds_to_time with the minutes counted from the start, not from
\* the hour.
milliseconds_to_time_total_minutes(ms) ==
    LET hours        == ms \div MILLISECONDS_PER_HOUR
        minutes      == ms \div MILLISECONDS_PER_MINUTE
        seconds      == (ms % MILLISECONDS_PER_MINUTE) \div MILLISECONDS_PER_SECOND
        centiseconds == (ms % MILLISECONDS_PER_SECOND) \div CENTISECONDS_TO_MILLISECONDS
    IN  Fmt(hours) \o ":" \o Fmt02(minutes) \o ":" \o Fmt02(seconds)
            \o "." \o Fmt02(centiseconds)

milliseconds_to_time(ms) ==
    LET hours        == ms \div MILLISECONDS_PER_HOUR
        minutes      == (ms % MILLISECONDS_PER_HOUR) \div MILLISECONDS_PER_MINUTE
        seconds      == (ms % MILLISECONDS_PER_MINUTE) \div MILLISECONDS_PER_SECOND
        centiseconds == (ms % MILLISECONDS_PER_SECOND) \div CENTISECONDS_TO_MILLISECONDS
    IN  Fmt(hours) \o ":" \o Fmt02(minutes) \o ":" \o Fmt02(seconds)
            \o "." \o Fmt02(centiseconds)

\* str::split(&[':', '.'][..]): the pieces between the separators.
RECURSIVE SplitOn(_, _)
SplitOn(s, seps) ==
    LET e == RunEndNot(s, 1, seps)
    IN  IF e > Len(s) THEN <<s>>
        ELSE <<Sub(s, 1, e - 1)>> \o SplitOn(From(s, e + Len(At(s, e))), seps)

\* The sum of the four parsed fields; a field that does not parse is the
\* error the `?` returns.
TimeOfFields(h, m, s, cs) ==
    IF ~(h.ok /\ m.ok /\ s.ok /\ cs.ok) THEN [ok |-> FALSE, v |-> 0]
    ELSE [ok |-> TRUE,
          v  |-> h.v * MILLISECONDS_PER_HOUR
                   + m.v * MILLISECONDS_PER_MINUTE
                   + s.v * MILLISECONDS_PER_SECOND
                   + cs.v * CENTISECONDS_TO_MILLISECONDS]

TimeOfParts(parts) ==
    IF Len(parts) # 4 THEN [ok |-> FALSE, v |-> 0]
    ELSE TimeOfFields(ParseUsize(parts[1]), ParseUsize(parts[2]),
                      ParseUsize(parts[3]), ParseUsize(parts[4]))

\* [ok, v]: Ok(v) or Err.
time_to_milliseconds(time_str) == TimeOfParts(SplitOn(time_str, {":", "."}))

(***************************************************************************)
(* Tag grammar matchers.  A position is the index of a character, from 1;  *)
(* the end of a match is the position after its last character.  A regex   *)
(* is a sequence of items, each a literal or a repeated character class;   *)
(* in the regexes of the program no item can give back characters to the   *)
(* item after it, so that an item takes the longest run it can.            *)
(***************************************************************************)
NoMatch == [ok |-> FALSE]

Lit(p) == [kind |-> "lit", lit |-> p, set |-> {}]

Opt(p) == [kind |-> "opt", lit |-> p, set |-> {}]

OneOrMore(set) == [kind |-> "some", lit |-> "", set |-> set]

ZeroOrMore(set) == [kind |-> "any", lit |-> "", set |-> set]

OneOrMoreNot(set) == [kind |-> "some_not", lit |-> "", set |-> set]

ZeroOrMoreNot(set) == [kind |-> "any_not", lit |-> "", set |-> set]

Rest == [kind |-> "rest", lit |-> "", set |-> {}]

\* The position after a non-empty run that ends at e and began at i; 0 for
\* an empty run.
NonEmpty(i, e) == IF e > i THEN e ELSE 0

\* The position after the item matched at position i; 0 if it does not match.
ItemEnd(s, i, item) ==
    CASE item.kind = "lit" ->
            (IF StartsWithAt(s, i, item.lit) THEN i + Len(item.lit) ELSE 0)
      [] item.kind = "opt" ->
            (IF StartsWithAt(s, i, item.lit) THEN i + Len(item.lit) ELSE i)
      [] item.kind = "some"     -> NonEmpty(i, RunEnd(s, i, item.set))
      [] item.kind = "any"      -> RunEnd(s, i, item.set)
      [] item.kind = "some_not" -> NonEmpty(i, RunEndNot(s, i, item.set))
      [] item.kind = "any_not"  -> RunEndNot(s, i, item.set)
      [] item.kind = "rest"     -> Len(s) + 1

\* The pattern matched at position i: [ok, ends], ends[k] the position after
\* item k.  The items are matched from left to right and none gives back to
\* the next, so the match of a pattern is the match of its first half
\* followed by the match of its second half from where the first ended.
RECURSIVE MatchEnds(_, _, _)
RECURSIVE MatchRest(_, _, _)
PrependEnd(ends, m) == IF m.ok THEN [ok |-> TRUE, ends |-> ends \o m.ends] ELSE m

MatchRest(s, m, pat) ==
    IF ~m.ok THEN m
    ELSE PrependEnd(m.ends, MatchEnds(s, m.ends[Len(m.ends)], pat))

MatchEnds(s, i, pat) ==
    IF pat = <<>> THEN [ok |-> TRUE, ends |-> <<>>]
    ELSE IF Len(pat) = 1
    THEN LET e == ItemEnd(s, i, pat[1])
         IN  IF e = 0 THEN [ok |-> FALSE, ends |-> <<>>]
             ELSE [ok |-> TRUE, ends |-> <<e>>]
    ELSE MatchRest(s, MatchEnds(s, i, SubSeq(pat, 1, Len(pat) \div 2)),
                   SubSeq(pat, Len(pat) \div 2 + 1, Len(pat)))

\* Regex::captures: the leftmost match at or after position i, [ok, at, ends].
RECURSIVE SearchFrom(_, _, _)
RECURSIVE SearchTry(_, _, _, _)
SearchTry(s, i, pat, m) ==
    IF m.ok THEN [ok |-> TRUE, at |-> i, ends |-> m.ends]
    ELSE SearchFrom(s, i + 1, pat)

SearchFrom(s, i, pat) ==
    IF i > Len(s) THEN [ok |-> FALSE, at |-> 0, ends |-> <<>>]
    ELSE SearchTry(s, i, pat, MatchEnds(s, i, pat))

\* Regex::captures_iter: the matches from left to right, none overlapping.
RECURSIVE FindAll(_, _, _)
RECURSIVE FindNext(_, _, _)
FindNext(s, pat, m) ==
    IF m.ok THEN <<m>> \o FindAll(s, m.ends[Len(m.ends)], pat) ELSE <<>>

FindAll(s, i, pat) == FindNext(s, pat, SearchFrom(s, i, pat))

\* open \d+ , \d+ close
PairPattern(open, close) ==
    << Lit(open), OneOrMore(RegexDigits), Lit(","), OneOrMore(RegexDigits),
       Lit(close) >>

PairCaps(s, m) ==
    IF m.ok
    THEN [ok        |-> TRUE,
          start_pos |-> m.at,
          end_pos   |-> m.ends[5],
          start     |-> Sub(s, m.ends[1], m.ends[2] - 1),
          duration  |-> Sub(s, m.ends[3], m.ends[4] - 1)]
    ELSE NoMatch

RECURSIVE PairCapsAll(_, _)
PairCapsAll(s, ms) ==
    IF ms = <<>> THEN <<>>
    ELSE <<PairCaps(s, Head(ms))>> \o PairCapsAll(s, Tail(ms))

\* QRC_TIMESTAMP_REGEX.captures(line): the leftmost [\d+,\d+] of the line.
QRC_TIMESTAMP_REGEX(line) ==
    PairCaps(line, SearchFrom(line, 1, PairPattern("[", "]")))

\* WORD_TIME_TAG_REGEX.captures_iter(content): every (\d+,\d+), left to right.
WORD_TIME_TAG_REGEX(content) ==
    PairCapsAll(content, FindAll(content, 1, PairPattern("(", ")")))

\* LYS_PROPERTY_REGEX.captures(line): the leftmost [\d+] and all that follows.
LysPropertyCaps(s, m) ==
    IF m.ok
    THEN [ok |-> TRUE, property |-> Sub(s, m.ends[1], m.ends[2] - 1),
          content |-> From(s, m.ends[3])]
    ELSE NoMatch

LYS_PROPERTY_REGEX(line) ==
    LysPropertyCaps(line,
        SearchFrom(line, 1, <<Lit("["), OneOrMore(RegexDigits), Lit("]"), Rest>>))

\* K_TAG_REGEX.captures_iter(ass_text): {\k or {\kf, \d+, }, then the text up
\* to the next backslash or opening brace.
KTagCaps(s, m) ==
    [ok |-> TRUE, k_cs |-> Sub(s, m.ends[2], m.ends[3] - 1),
     seg_text |-> Sub(s, m.ends[4], m.ends[5] - 1), end_pos |-> m.ends[5]]

RECURSIVE KTagCapsAll(_, _)
KTagCapsAll(s, ms) ==
    IF ms = <<>> THEN <<>>
    ELSE <<KTagCaps(s, Head(ms))>> \o KTagCapsAll(s, Tail(ms))

K_TAG_REGEX(ass_text) ==
    KTagCapsAll(ass_text,
        FindAll(ass_text, 1,
                << Lit("{\\k"), Opt("f"), OneOrMore(RegexDigits), Lit("}"),
                   ZeroOrMoreNot({"\\", "{"}) >>))

\* \d+:\d+:\d+\.\d+
TimePattern ==
    << OneOrMore(RegexDigits), Lit(":"), OneOrMore(RegexDigits), Lit(":"),
       OneOrMore(RegexDigits), Lit("."), OneOrMore(RegexDigits) >>

\* ^Dialogue:\s*[^,]+,start,end,style,name,[^,]*,[^,]*,[^,]*,[^,]*,text
\* White space is not a comma: \s*[^,]+ and [^,]+ match the same texts.
DialoguePattern ==
    << Lit("Dialogue:"), OneOrMoreNot({","}), Lit(",") >>
        \o TimePattern \o <<Lit(",")>> \o TimePattern \o <<Lit(",")>>
        \o << ZeroOrMoreNot({","}), Lit(","), ZeroOrMoreNot({","}), Lit(","),
              ZeroOrMoreNot({","}), Lit(","), ZeroOrMoreNot({","}), Lit(","),
              ZeroOrMoreNot({","}), Lit(","), ZeroOrMoreNot({","}), Lit(","),
              Rest >>

DialogueCaps(line, m) ==
    IF m.ok
    THEN [ok         |-> TRUE,
          start_time |-> Sub(line, m.ends[3], m.ends[10] - 1),
          end_time   |-> Sub(line, m.ends[11], m.ends[18] - 1),
          style      |-> Sub(line, m.ends[19], m.ends[20] - 1),
          name       |-> Sub(line, m.ends[21], m.ends[22] - 1),
          text       |-> From(line, m.ends[31])]
    ELSE NoMatch

\* ASS_DIALOGUE_REGEX.captures(line)
ASS_DIALOGUE_REGEX(line) == DialogueCaps(line, MatchEnds(line, 1, DialoguePattern))

\* ^Comment:\s*\d+,0:00:00\.00,0:00:00\.00,meta,,0,0,0,,(.*)
MetaPattern ==
    << Lit("Comment:"), ZeroOrMore(WhiteSpace), OneOrMore(RegexDigits),
       Lit(",0:00:00.00,0:00:00.00,meta,,0,0,0,,"), Rest >>

MetaCaps(line, m) ==
    IF m.ok THEN [ok |-> TRUE, text |-> From(line, m.ends[4])] ELSE NoMatch

\* META_COMMENT_REGEX.captures(line)
META_COMMENT_REGEX(line) == MetaCaps(line, MatchEnds(line, 1, MetaPattern))

\* IsFormatLine taking any line that is not empty as the column header.
IsFormatLine_any_line(line) == line # ""

\* line.trim_start().starts_with("Format: Layer, Start, End, Style, Name,")
IsFormatLine(line) ==
    StartsWith(trim_start(line), "Format: Layer, Start, End, Style, Name,")

(***************************************************************************)
(* Warnings.  log_warn! writes one message to stderr; the model keeps the  *)
(* messages in a log, each a pair <<kind, subject>>.                       *)
(***************************************************************************)
Warn(kind, subject) == <<kind, subject>>

(***************************************************************************)
(* Consistency checker.                                                    *)
(***************************************************************************)
\* [ok: the returned bool, log: what it logged]
check_time_consistency(expected_duration, actual_duration, line_number) ==
    IF expected_duration # actual_duration
    THEN [ok |-> FALSE, log |-> <<Warn("time_mismatch", Fmt(line_number))>>]
    ELSE [ok |-> TRUE, log |-> <<>>]

\* style is roma, trans or ts in any letter case: the lines the consistency
\* check leaves out.
IsAuxStyle(style) ==
    \/ eq_ignore_ascii_case(style, "roma")
    \/ eq_ignore_ascii_case(style, "trans")
    \/ eq_ignore_ascii_case(style, "ts")

(***************************************************************************)
(* Metadata extractor.  An Option is a sequence of at most one element.    *)
(***************************************************************************)
MetaTag(key) ==
    CASE key = "musicName" -> <<"ti">>
      [] key = "artists" -> <<"ar">>
      [] key = "album" -> <<"al">>
      [] key = "ttmlAuthorGithubLogin" -> <<"by">>
      [] OTHER -> <<>>

\* MetadataOf writing an entry for an empty value too.
MetadataOf_empty_value_kept(key, value) ==
    IF MetaTag(key) = <<>> THEN <<>>
    ELSE <<"[" \o MetaTag(key)[1] \o ":" \o value \o "]">>

MetadataOf(key, value) ==
    IF MetaTag(key) = <<>> \/ value = "" THEN <<>>
    ELSE <<"[" \o MetaTag(key)[1] \o ":" \o value \o "]">>

\* colon_pos is the position of the first colon, 0 if there is none.
MetadataAt(text, colon_pos) ==
    IF colon_pos = 0 THEN <<>>
    ELSE MetadataOf(trim(Sub(text, 1, colon_pos - 1)),
                    trim(From(text, colon_pos + 1)))

parse_ass_metadata_text(text) == MetadataAt(text, Find(text, ":", 1))

(***************************************************************************)
(* Dialogue parser.                                                        *)
(***************************************************************************)
\* The loop over K_TAG_REGEX.captures_iter: [ok, segments, sum_k_ms]; the
\* first count that does not parse ends it with an error.
PushSegment(seg_text, k_cs, rest) ==
    IF ~k_cs.ok \/ ~rest.ok
    THEN [ok |-> FALSE, segments |-> <<>>, sum_k_ms |-> 0]
    ELSE [ok       |-> TRUE,
          segments |-> <<<<seg_text, k_cs.v * K_TAG_MULTIPLIER>>>> \o rest.segments,
          sum_k_ms |-> k_cs.v * K_TAG_MULTIPLIER + rest.sum_k_ms]

RECURSIVE ParseSegments(_)
ParseSegments(caps) ==
    IF caps = <<>> THEN [ok |-> TRUE, segments |-> <<>>, sum_k_ms |-> 0]
    ELSE PushSegment(Head(caps).seg_text, ParseUsize(Head(caps).k_cs),
                     ParseSegments(Tail(caps)))

\* The ParsedDialogue of the captures, once the times and the K counts are
\* parsed; any of them that does not parse is the error returned.
DialogueOf(caps, line_number, start_ms, end_ms, segs) ==
    IF ~start_ms.ok \/ ~end_ms.ok \/ ~segs.ok THEN [tag |-> "Err"]
    ELSE [tag |-> "Some",
          d   |-> [line_number |-> line_number,
                   start_ms    |-> start_ms.v,
                   name        |-> IF caps.name = "" THEN <<>> ELSE <<caps.name>>,
                   segments    |-> segs.segments,
                   duration_ms |-> saturating_sub(end_ms.v, start_ms.v),
                   sum_k_ms    |-> segs.sum_k_ms,
                   style       |-> trim(caps.style)]]

DialogueOfCaps(caps, line_number) ==
    IF ~caps.ok THEN [tag |-> "None"]
    ELSE DialogueOf(caps, line_number,
                    time_to_milliseconds(caps.start_time),
                    time_to_milliseconds(caps.end_time),
                    ParseSegments(K_TAG_REGEX(caps.text)))

\* [tag |-> "None"], [tag |-> "Err"] or [tag |-> "Some", d |-> ParsedDialogue].
parse_ass_dialogue_line(line, line_number) ==
    DialogueOfCaps(ASS_DIALOGUE_REGEX(line), line_number)

(***************************************************************************)
(* Role classifier and property inference.                                 *)
(***************************************************************************)
\* The keyword sets of the program.
LeftV1Words == {"￥ﾷﾦ", "v1", "￥ﾐﾈ", "v1000"}  \* 左 U+5DE6, 合 U+5408

RightV2Words == {"￥ﾏﾳ", "v2", "x-duet", "x-anti"}  \* 右 U+53F3

BackgroundWords == {"￨ﾃﾌ", "x-bg"}  \* 背 U+80CC

CategoryOfWord(first_part, name_str) ==
    IF first_part \in LeftV1Words
        THEN [category |-> "LeftV1", warned |-> FALSE, log |-> <<>>]
    ELSE IF first_part \in RightV2Words
        THEN [category |-> "RightV2", warned |-> FALSE, log |-> <<>>]
    ELSE IF first_part \in BackgroundWords
        THEN [category |-> "Background", warned |-> FALSE, log |-> <<>>]
    ELSE [category |-> "Other", warned |-> TRUE,
          log |-> <<Warn("undefined_name", name_str)>>]

\* CategoryOfName with the whole trimmed name compared to the keywords.
CategoryOfName_whole_name(name_str, trimmed_name) ==
    IF name_str = "" \/ trimmed_name = ""
    THEN [category |-> "LeftV1", warned |-> FALSE, log |-> <<>>]
    ELSE CategoryOfWord(trimmed_name, name_str)

\* first_part is trimmed_name.split_whitespace().next().
CategoryOfName(name_str, trimmed_name) ==
    IF name_str = "" \/ trimmed_name = ""
    THEN [category |-> "LeftV1", warned |-> FALSE, log |-> <<>>]
    ELSE CategoryOfWord(Sub(trimmed_name, 1,
                            RunEndNot(trimmed_name, 1, WhiteSpace) - 1),
                        name_str)

\* [category, warned, log]
map_ass_name_to_category(name_opt) ==
    IF name_opt = <<>> THEN [category |-> "LeftV1", warned |-> FALSE, log |-> <<>>]
    ELSE CategoryOfName(name_opt[1], trim(name_opt[1]))

\* cur and prev are the classifications of the current and of the previous
\* line; the previous line is classified, and its warning logged, only when
\* the current line is a background line.
PropertyOf(cur, prev, last_calculated_property) ==
    [property |->
        CASE cur.category = "LeftV1" -> LYS_PROPERTY_NO_BACK_LEFT
          [] cur.category = "RightV2" -> LYS_PROPERTY_NO_BACK_RIGHT
          [] cur.category = "Background" ->
                (CASE prev.category = "LeftV1" -> LYS_PROPERTY_BACK_LEFT
                   [] prev.category = "RightV2" -> LYS_PROPERTY_BACK_RIGHT
                   [] prev.category = "Background" -> last_calculated_property
                   [] prev.category = "Other" -> LYS_PROPERTY_BACK_UNSET)
          [] cur.category = "Other" -> LYS_PROPERTY_UNSET,
     warned   |-> cur.warned,
     log      |-> IF cur.category = "Background" THEN cur.log \o prev.log
                  ELSE cur.log]

\* previous_dialogue is an Option; [property, warned, log].
calculate_lys_property(current_dialogue, previous_dialogue, last_calculated_property) ==
    PropertyOf(map_ass_name_to_category(current_dialogue.name),
               IF previous_dialogue = <<>>
               THEN [category |-> "Other", warned |-> FALSE, log |-> <<>>]
               ELSE map_ass_name_to_category(previous_dialogue[1].name),
               last_calculated_property)

(***************************************************************************)
(* Emitters of the inline tokens, text(start,duration), of QRC and LYS.    *)
(***************************************************************************)
\* InlineTokens with the start of the next token never advanced.
RECURSIVE InlineTokens_start_kept(_, _)
InlineTokens_start_kept(segments, current_segment_start_ms) ==
    IF segments = <<>> THEN ""
    ELSE LET seg_text            == Head(segments)[1]
             segment_duration_ms == Head(segments)[2]
         IN  IF seg_text # "" \/ segment_duration_ms > 0
             THEN seg_text \o "(" \o Fmt(current_segment_start_ms) \o ","
                      \o Fmt(segment_duration_ms) \o ")"
                      \o InlineTokens_start_kept(Tail(segments),
                                                 current_segment_start_ms)
             ELSE InlineTokens_start_kept(Tail(segments), current_segment_start_ms)

\* InlineTokens leaving out every segment of duration 0.
RECURSIVE InlineTokens_zero_dropped(_, _)
InlineTokens_zero_dropped(segments, current_segment_start_ms) ==
    IF segments = <<>> THEN ""
    ELSE LET seg_text            == Head(segments)[1]
             segment_duration_ms == Head(segments)[2]
         IN  IF segment_duration_ms > 0
             THEN seg_text \o "(" \o Fmt(current_segment_start_ms) \o ","
                      \o Fmt(segment_duration_ms) \o ")"
                      \o InlineTokens_zero_dropped(Tail(segments),
                              current_segment_start_ms + segment_duration_ms)
             ELSE InlineTokens_zero_dropped(Tail(segments), current_segment_start_ms)

\* The loop over the segments of a dialogue: a segment with no text and no
\* duration is left out.
RECURSIVE InlineTokens(_, _)
InlineTokens(segments, current_segment_start_ms) ==
    IF segments = <<>> THEN ""
    ELSE LET seg_text            == Head(segments)[1]
             segment_duration_ms == Head(segments)[2]
         IN  IF seg_text # "" \/ segment_duration_ms > 0
             THEN seg_text \o "(" \o Fmt(current_segment_start_ms) \o ","
                      \o Fmt(segment_duration_ms) \o ")"
                      \o InlineTokens(Tail(segments),
                                      current_segment_start_ms + segment_duration_ms)
             ELSE InlineTokens(Tail(segments), current_segment_start_ms)

\* The QRC line of a parsed dialogue; chk is what the consistency check
\* returned and logged.
QrcOfDialogue(parsed_data, chk) ==
    [tag      |-> "Some",
     qrc_line |-> "[" \o Fmt(parsed_data.start_ms) \o ","
                      \o Fmt(parsed_data.duration_ms) \o "]"
                      \o InlineTokens(parsed_data.segments, parsed_data.start_ms),
     warned   |-> ~chk.ok,
     log      |-> chk.log]

QrcOfParsed(parsed, line_number) ==
    IF parsed.tag = "Err" THEN [tag |-> "Err", warned |-> FALSE, log |-> <<>>]
    ELSE IF parsed.tag = "None"
        THEN [tag |-> "None", warned |-> TRUE,
              log |-> <<Warn("dialogue_unparsed", Fmt(line_number))>>]
    ELSE QrcOfDialogue(parsed.d,
                       IF IsAuxStyle(parsed.d.style)
                       THEN [ok |-> TRUE, log |-> <<>>]
                       ELSE check_time_consistency(parsed.d.duration_ms,
                                parsed.d.sum_k_ms, parsed.d.line_number))

\* [tag |-> "Some" | "None" | "Err", qrc_line, warned, log]
process_dialogue_for_qrc(line, line_number) ==
    QrcOfParsed(parse_ass_dialogue_line(line, line_number), line_number)

(***************************************************************************)
(* Segment reconstructor: the K-value of a duration and its tag.           *)
(***************************************************************************)
\* KValue with the division truncating the duration itself.
KValue_truncated(ms) == ms \div K_TAG_MULTIPLIER

\* ms + K_TAG_MULTIPLIER / 2 is above usize::MAX: the addition overflows (a
\* number of at most 2147483647 - K_TAG_MULTIPLIER / 2 does not; the first
\* test spares the evaluation of usize::MAX on such numbers).
KValueOverflows(ms) ==
    /\ ms > 2147483647 - K_TAG_MULTIPLIER \div 2
    /\ ms + K_TAG_MULTIPLIER \div 2 > DecValue(UsizeMaxDigits)

\* (ms + K_TAG_MULTIPLIER / 2) / K_TAG_MULTIPLIER on a usize: the sum wraps
\* around usize::MAX where the build does not check the overflow; where it
\* does, the step panics (ReconstructOverflows).
KValue(ms) ==
    IF ms <= 2147483647 - K_TAG_MULTIPLIER \div 2
    THEN (ms + K_TAG_MULTIPLIER \div 2) \div K_TAG_MULTIPLIER
    ELSE ((ms + K_TAG_MULTIPLIER \div 2) % (DecValue(UsizeMaxDigits) + 1))
             \div K_TAG_MULTIPLIER

KTag(k_value) == "{\\k" \o Fmt(k_value) \o "}"

\* GapTag writing no tag for a gap.
GapTag_never(from_ms, to_ms) == ""

\* The tag of a silent gap from from_ms to to_ms, "" when there is no gap or
\* its K-value is 0.
GapTag(from_ms, to_ms) ==
    IF to_ms > from_ms
    THEN LET gap_k_value == KValue(to_ms - from_ms)
         IN  IF gap_k_value > 0 THEN KTag(gap_k_value) ELSE ""
    ELSE ""

\* What one token adds after its gap: its tag and the text before it, or
\* the text alone when its K-value is 0.
TaggedText(duration_ms, text_segment) ==
    LET word_k_value == KValue(duration_ms)
    IN  IF word_k_value > 0 THEN KTag(word_k_value) \o text_segment
        ELSE text_segment

\* TailPart with no tag for the time left when no text is left.
TailPart_text_only(remaining_text, end_ms, last_end_ms) ==
    IF remaining_text # ""
    THEN GapTag(last_end_ms, end_ms) \o remaining_text
    ELSE ""

\* What follows the last token: the remaining text under the tag of the time
\* left to the end of the line, or that tag alone.
TailPart(remaining_text, end_ms, last_end_ms) ==
    IF remaining_text # ""
    THEN GapTag(last_end_ms, end_ms) \o remaining_text
    ELSE GapTag(last_end_ms, end_ms)

\* The loop over WORD_TIME_TAG_REGEX.captures_iter: [ok, tags], each tag
\* [start_pos, end_pos, start_ms, duration_ms]; a number that does not parse
\* ends it with an error.
PushTag(cap, start_ms, duration_ms, rest) ==
    IF ~start_ms.ok \/ ~duration_ms.ok \/ ~rest.ok
    THEN [ok |-> FALSE, tags |-> <<>>]
    ELSE [ok   |-> TRUE,
          tags |-> <<[start_pos   |-> cap.start_pos,
                      end_pos     |-> cap.end_pos,
                      start_ms    |-> start_ms.v,
                      duration_ms |-> duration_ms.v]>> \o rest.tags]

RECURSIVE ParseWordTags(_)
ParseWordTags(caps) ==
    IF caps = <<>> THEN [ok |-> TRUE, tags |-> <<>>]
    ELSE PushTag(Head(caps), ParseUsize(Head(caps).start),
                 ParseUsize(Head(caps).duration), ParseWordTags(Tail(caps)))

\* Vec::sort_by_key(|k| k.0): a stable sort on the position in the line.
RECURSIVE InsertByPos(_, _)
InsertByPos(t, sorted) ==
    IF sorted = <<>> THEN <<t>>
    ELSE IF t.start_pos < Head(sorted).start_pos THEN <<t>> \o sorted
    ELSE <<Head(sorted)>> \o InsertByPos(t, Tail(sorted))

RECURSIVE SortByPos(_)
SortByPos(tags) ==
    IF tags = <<>> THEN <<>>
    ELSE InsertByPos(tags[Len(tags)], SortByPos(SubSeq(tags, 1, Len(tags) - 1)))

(***************************************************************************)
(* The input files.  A file is read line by line; the model draws each     *)
(* line of it from the pool of its format, up to the bound on its length.  *)
(***************************************************************************)
MaxAssLines == 4

MaxLyricLines == 2

\* The inverse conversion is run on the output of a conversion that read at
\* most this many lines.
MaxChainLines == 3

FormatLine == "Format: Layer, Start, End, Style, Name, MarginL, MarginR, MarginV, Effect, Text"

\* Lines of an ASS file before its column header.
AssHead ==
    { FormatLine,
      "Dialogue: 0,0:00:00.00,0:00:01.00,Default,,0,0,0,,{\\k100}early" }

\* Lines of an ASS file after its column header, as ASS->QRC reads them.
AssBodyQrc ==
    { "Comment: 0,0:00:00.00,0:00:00.00,meta,,0,0,0,,musicName:Song",
      "Comment: 0,0:00:00.00,0:00:00.00,meta,,0,0,0,,album:LP",
      "Comment: 0,0:00:00.00,0:00:00.00,meta,,0,0,0,,mood:blue",
      "Dialogue: 0,0:00:01.00,0:00:02.00,Default,,0,0,0,,{\\k50}ab{\\kf50}cd",
      "Dialogue: 0,0:00:05.00,0:00:05.50,Default,,0,0,0,,{\\k0}a{\\k50}b",
      "Dialogue: 0,0:00:06.00,0:00:07.00,Default,,0,0,0,,{\\k30}gap",
      "Dialogue: 0,0:00:03.00,0:00:04.00,Default,,0,0,0,,{\\k50}a(1,2){\\k50}b",
      "Dialogue: 0,0:00:08.00,0:00:08.00,Default,,0,0,0,,plain",
      "Dialogue: 0,0:00:02.00,0:00:01.00,roma,,0,0,0,,{\\k10}z",
      "Dialogue: 0,0:00:0ￛﾳ.00,0:00:02.00,Default,,0,0,0,,{\\k10}e",  \* ۳ U+06F3
      "Dialogue: 0,0:00:01.00,0:00:02.00,Default,,0,0,0,,{\\k99999999999999999999}e",
      "Dialogue: broken" }

\* Lines of an ASS file after its column header, as ASS->LYS reads them.
AssBodyLys ==
    { "Comment: 0,0:00:00.00,0:00:00.00,meta,,0,0,0,,artists:Band",
      "Comment: 0,0:00:00.00,0:00:00.00,meta,,0,0,0,,musicName:Song",
      "Dialogue: 0,0:00:01.00,0:00:02.00,Default,￥ﾷﾦ,0,0,0,,{\\k50}ab{\\k50}cd",  \* 左 U+5DE6
      "Dialogue: 0,0:00:02.00,0:00:03.00,Default,￥ﾏﾳ,0,0,0,,{\\k100}r",  \* 右 U+53F3
      "Dialogue: 0,0:00:02.00,0:00:03.00,Default,￥ﾐﾈ,0,0,0,,{\\k100}h",  \* 合 U+5408
      "Dialogue: 0,0:00:03.00,0:00:04.00,Default,￨ﾃﾌ,0,0,0,,{\\k100}bg",  \* 背 U+80CC
      "Dialogue: 0,0:00:04.00,0:00:05.00,Default,￨ﾷﾯ￤ﾺﾺ,0,0,0,,{\\k100}x",  \* 路 U+8DEF, 人 U+4EBA
      "Dialogue: 0,0:00:05.00,0:00:06.00,Default,,0,0,0,,{\\k0}{\\k0}q{\\k90}",
      "Dialogue: 0,0:00:01.00,0:00:02.00,ts,￨ﾃﾌ,0,0,0,,translation",  \* 背 U+80CC
      "Dialogue: 0,0:00:01.00,0:00:02.00,TS,,0,0,0,,Translation",
      "Dialogue: 0,0:00:01.00,0:00:02.00,roma,,0,0,0,,romaji",
      "Dialogue: 0,0:0ￛﾳ:01.00,0:00:02.00,Default,,0,0,0,,{\\k10}e",  \* ۳ U+06F3
      "Dialogue: broken" }

\* Lines of a QRC file.
QrcLines ==
    { "[ti:Song]",
      "[500,2500]word1(1000,500)word2(2000,500)",
      "[0,1000]a(0,500)b(500,500)",
      "[0,500]{\\k7}a(0,500)",
      "[0,300]a(0,3)b(50,5)c(100,150)",
      "[0,1000]a(500,0)",
      "[0,1000]a(0,500)tail",
      "[0,1000]a(0,500)tail\r",
      "[0,500]{\\k0}a(0,500)",
      "[0,0]",
      "[0,1000]",
      "[99999999999999999999,100]a(0,100)",
      "[0,100]a(ￛﾳ,100)" }  \* ۳ U+06F3

\* Lines of a LYS file.
LysLines ==
    { "[ti:Song]",
      "[4]a(0,500)b(500,500)",
      "[7]a(1000,3)b(1050,5)c(1100,150)",
      "[5]b(500,500)a(0,400)",
      "[6]a(100,0)",
      "[0]a(0,500)tail",
      "[4]a(0,500)tail\r",
      "[4]{\\k0}a(0,500)",
      "[8](0,0)",
      "[99999999999999999999]a(0,100)",
      "[4]a(0,99999999999999999999)",
      "plain text" }

Drivers == {"ass2qrc", "qrc2ass", "ass2lys", "lys2ass"}

Inverse(d) ==
    CASE d = "ass2qrc" -> "qrc2ass"
      [] d = "qrc2ass" -> "ass2qrc"
      [] d = "ass2lys" -> "lys2ass"
      [] d = "lys2ass" -> "ass2lys"

ReadsAss(d) == d \in {"ass2qrc", "ass2lys"}

(***************************************************************************)
(* State.                                                                  *)
(***************************************************************************)
VARIABLES
    driver,                   \* the conversion that runs
    stage,                    \* 1: on a file of the pools; 2: on the output of stage 1
    pc,                       \* "start", "read", "emit", "pass2", "done"
    input,                    \* the lines read so far
    pending,                  \* stage 2: the lines still to read
    source,                   \* stage 2: the file stage 1 read
    after_format,
    line_number,
    metadata_lines,
    output_qrc_lines,
    parsed_dialogues,
    warning_occurred,         \* warning_occurred / warning_occurred_overall
    i,                        \* pass 2 of ASS->LYS: the dialogues done
    last_calculated_property,
    rec,                      \* the line under reconstruction (QRC->ASS, LYS->ASS)
    out,                      \* the lines written to the output file
    created,                  \* the output file exists
    result,                   \* "none", "Ok(false)", "Ok(true)", "Err", "Panic"
    log,                      \* the warnings logged
    codec,                    \* the time codec on its own (SpecCodec)
    call,                     \* a function of the program called on its own
    overflow_checks           \* the build panics on an arithmetic overflow (true)
                              \* or wraps (false)

vars == <<driver, stage, pc, input, pending, source, after_format, line_number,
          metadata_lines, output_qrc_lines, parsed_dialogues, warning_occurred,
          i, last_calculated_property, rec, out, created, result, log, codec, call,
          overflow_checks>>

NoRec ==
    [header_start_ms    |-> 0,
     header_end_ms      |-> 0,
     property           |-> 0,
     content_part       |-> "",
     time_tags          |-> <<>>,
     ass_text_builder   |-> "",
     last_word_end_ms   |-> 0,
     current_char_index |-> 1]

NoCodec == [pc |-> "idle", ms |-> 0, time_str |-> "", back |-> [ok |-> FALSE, v |-> 0]]

\* No function is called on its own.
NoCall == [pc |-> "idle"]

\* The locals of a conversion at its entry.
Locals ==
    /\ input = <<>>
    /\ after_format = FALSE
    /\ line_number = 0
    /\ metadata_lines = <<>>
    /\ output_qrc_lines = <<>>
    /\ parsed_dialogues = <<>>
    /\ warning_occurred = FALSE
    /\ i = 0
    /\ last_calculated_property = LYS_PROPERTY_UNSET
    /\ rec = NoRec
    /\ out = <<>>
    /\ created = FALSE
    /\ result = "none"
    /\ log = <<>>

Init ==
    /\ driver \in Drivers
    /\ stage = 1
    /\ pc = "start"
    /\ pending = <<>>
    /\ source = <<>>
    /\ Locals
    /\ codec = NoCodec
    /\ call = NoCall
    /\ overflow_checks \in BOOLEAN

(***************************************************************************)
(* Reading.                                                                *)
(***************************************************************************)
\* The lines the next read can return.
NextLines ==
    IF stage = 2 THEN (IF pending = <<>> THEN {} ELSE {Head(pending)})
    ELSE IF ReadsAss(driver)
        THEN IF Len(input) >= MaxAssLines THEN {}
             ELSE IF ~after_format THEN AssHead
             ELSE IF driver = "ass2qrc" THEN AssBodyQrc ELSE AssBodyLys
    ELSE IF Len(input) >= MaxLyricLines THEN {}
    ELSE IF driver = "qrc2ass" THEN QrcLines ELSE LysLines

AtEof == stage = 1 \/ pending = <<>>

Consume(line) ==
    /\ line \in NextLines
    /\ input' = Append(input, line)
    /\ pending' = IF stage = 2 THEN Tail(pending) ELSE pending

Ok(warned) == IF warned THEN "Ok(true)" ELSE "Ok(false)"

\* write_ass_header: the ten lines of the header.
AssHeader ==
    << "[Script Info]",
       "PlayResX: 1920",
       "PlayResY: 1440",
       "",
       "[V4+ Styles]",
       "Format: Name, Fontname, Fontsize, PrimaryColour, SecondaryColour, OutlineColour, BackColour, Bold, Italic, Underline, StrikeOut, ScaleX, ScaleY, Spacing, Angle, BorderStyle, Outline, Shadow, Alignment, MarginL, MarginR, MarginV, Encoding",
       "Style: Default,￥ﾾﾮ￨ﾽﾯ￩ﾛﾅ￩ﾻﾑ,100,&H00FFFFFF,&H004E503F,&H00000000,&H00000000,0,0,0,0,100,100,0,0,1,1.5,0.5,2,10,10,60,1",  \* 微 U+5FAE, 软 U+8F6F, 雅 U+96C5, 黑 U+9ED1
       "",
       "[Events]",
       FormatLine >>

\* Start creating the output file of every driver.
Start_creates_output ==
    /\ pc = "start"
    /\ pc' = "read"
    /\ created' = TRUE
    /\ out' = IF driver \in {"qrc2ass", "lys2ass"} THEN AssHeader ELSE <<>>
    /\ UNCHANGED <<driver, stage, input, pending, source, after_format,
                   line_number, metadata_lines, output_qrc_lines,
                   parsed_dialogues, warning_occurred, i,
                   last_calculated_property, rec, result, log, codec, call,
                   overflow_checks>>

\* Start writing no ASS header.
Start_no_header ==
    /\ pc = "start"
    /\ pc' = "read"
    /\ created' = (driver # "ass2lys")
    /\ out' = <<>>
    /\ UNCHANGED <<driver, stage, input, pending, source, after_format,
                   line_number, metadata_lines, output_qrc_lines,
                   parsed_dialogues, warning_occurred, i,
                   last_calculated_property, rec, result, log, codec, call,
                   overflow_checks>>

\* The entry of a conversion, up to its read loop: the three single-pass
\* drivers create the output file, and those that write ASS write its header.
Start ==
    /\ pc = "start"
    /\ pc' = "read"
    /\ created' = (driver # "ass2lys")
    /\ out' = IF driver \in {"qrc2ass", "lys2ass"} THEN AssHeader ELSE <<>>
    /\ UNCHANGED <<driver, stage, input, pending, source, after_format,
                   line_number, metadata_lines, output_qrc_lines,
                   parsed_dialogues, warning_occurred, i,
                   last_calculated_property, rec, result, log, codec, call,
                   overflow_checks>>

(***************************************************************************)
(* ASS -> QRC.                                                             *)
(***************************************************************************)
\* What the loop does with the result r of process_dialogue_for_qrc on line
\* n: an error is logged and the loop goes on.
A2Q_Collect(r, n) ==
    /\ output_qrc_lines' = IF r.tag = "Some"
                           THEN Append(output_qrc_lines, r.qrc_line)
                           ELSE output_qrc_lines
    /\ warning_occurred' = (warning_occurred \/ r.warned)
    /\ log' = IF r.tag = "Err"
              THEN Append(log, Warn("dialogue_error", Fmt(n)))
              ELSE log \o r.log

\* One turn of the read loop of convert_ass_to_qrc.
A2Q_ReadLine(line) ==
    /\ driver = "ass2qrc" /\ pc = "read"
    /\ Consume(line)
    /\ line_number' = line_number + 1
    /\ IF ~after_format
       THEN /\ after_format' = IsFormatLine(line)
            /\ UNCHANGED <<metadata_lines, output_qrc_lines, warning_occurred, log>>
       ELSE IF META_COMMENT_REGEX(line).ok
       THEN /\ metadata_lines' = metadata_lines
                    \o parse_ass_metadata_text(META_COMMENT_REGEX(line).text)
            /\ UNCHANGED <<after_format, output_qrc_lines, warning_occurred, log>>
       ELSE IF StartsWith(line, "Dialogue:")
       THEN /\ A2Q_Collect(process_dialogue_for_qrc(line, line_number + 1),
                           line_number + 1)
            /\ UNCHANGED <<after_format, metadata_lines>>
       ELSE UNCHANGED <<after_format, metadata_lines, output_qrc_lines,
                        warning_occurred, log>>
    /\ UNCHANGED <<driver, stage, pc, source, parsed_dialogues, i,
                   last_calculated_property, rec, out, created, result, codec, call,
                   overflow_checks>>

\* A2Q_Finish writing the QRC lines before the metadata lines.
A2Q_Finish_lines_first ==
    /\ driver = "ass2qrc" /\ pc = "read" /\ AtEof
    /\ out' = out \o output_qrc_lines \o metadata_lines
    /\ result' = Ok(warning_occurred)
    /\ pc' = "done"
    /\ UNCHANGED <<driver, stage, input, pending, source, after_format,
                   line_number, metadata_lines, output_qrc_lines,
                   parsed_dialogues, warning_occurred, i,
                   last_calculated_property, rec, created, log, codec, call,
                   overflow_checks>>

\* After the loop: the metadata lines, then the QRC lines, are written.
A2Q_Finish ==
    /\ driver = "ass2qrc" /\ pc = "read" /\ AtEof
    /\ out' = out \o metadata_lines \o output_qrc_lines
    /\ result' = Ok(warning_occurred)
    /\ pc' = "done"
    /\ UNCHANGED <<driver, stage, input, pending, source, after_format,
                   line_number, metadata_lines, output_qrc_lines,
                   parsed_dialogues, warning_occurred, i,
                   last_calculated_property, rec, created, log, codec, call,
                   overflow_checks>>

(***************************************************************************)
(* QRC -> ASS.                                                             *)
(***************************************************************************)
\* A `?` that returns the error: the conversion ends, the writer is dropped.
Abort ==
    /\ result' = "Err"
    /\ pc' = "done"

\* The line under reconstruction once its header and its tokens are parsed;
\* a number that does not parse is the error returned.  The tokens of
\* duration 0 are left out, the others sorted by their position.
Q2A_Begin(header_start_ms, header_duration_ms, content_part, parsed) ==
    IF ~header_start_ms.ok \/ ~header_duration_ms.ok \/ ~parsed.ok
    THEN Abort /\ UNCHANGED rec
    ELSE /\ rec' =
              [header_start_ms    |-> header_start_ms.v,
               header_end_ms      |-> saturating_add(header_start_ms.v,
                                                     header_duration_ms.v),
               property           |-> 0,
               content_part       |-> content_part,
               time_tags          |-> SortByPos(SelectSeq(parsed.tags,
                                          LAMBDA t : t.duration_ms # 0)),
               ass_text_builder   |-> "",
               last_word_end_ms   |-> header_start_ms.v,
               current_char_index |-> 1]
         /\ pc' = "emit"
         /\ UNCHANGED result

Q2A_Header(line, ts_caps) ==
    IF ~ts_caps.ok
    THEN UNCHANGED <<pc, rec, result>>
    ELSE Q2A_Begin(ParseUsize(ts_caps.start), ParseUsize(ts_caps.duration),
                   From(line, ts_caps.end_pos),
                   ParseWordTags(WORD_TIME_TAG_REGEX(From(line, ts_caps.end_pos))))

\* One turn of the read loop of convert_qrc_to_ass, up to the loop over the
\* tokens of the line.
Q2A_ReadLine(line) ==
    /\ driver = "qrc2ass" /\ pc = "read"
    /\ Consume(line)
    /\ Q2A_Header(line, QRC_TIMESTAMP_REGEX(line))
    /\ UNCHANGED <<driver, stage, source, after_format, line_number,
                   metadata_lines, output_qrc_lines, parsed_dialogues,
                   warning_occurred, i, last_calculated_property, out, created,
                   log, codec, call,
                   overflow_checks>>

\* One turn of the loop over the tokens: the gap before the token, then the
\* token.
ReconstructToken(r) ==
    LET t            == Head(r.time_tags)
        text_segment == Sub(r.content_part, r.current_char_index, t.start_pos - 1)
    IN  [r EXCEPT
           !.ass_text_builder   = @ \o GapTag(r.last_word_end_ms, t.start_ms)
                                    \o TaggedText(t.duration_ms, text_segment),
           !.current_char_index = t.end_pos,
           !.last_word_end_ms   = saturating_add(t.start_ms, t.duration_ms),
           !.time_tags          = Tail(r.time_tags)]

\* A K value of the turn of the loop over the tokens, or of what follows
\* the loop, overflows: that of the gap, or that of the token.
ReconstructOverflows(r) ==
    IF r.time_tags # <<>>
    THEN \/ /\ Head(r.time_tags).start_ms > r.last_word_end_ms
            /\ KValueOverflows(Head(r.time_tags).start_ms - r.last_word_end_ms)
         \/ KValueOverflows(Head(r.time_tags).duration_ms)
    ELSE /\ r.header_end_ms > r.last_word_end_ms
         /\ KValueOverflows(r.header_end_ms - r.last_word_end_ms)

\* A turn of the loop over the tokens; under overflow checks a K value that
\* overflows is a panic, which ends the program.
Q2A_Token ==
    /\ driver = "qrc2ass" /\ pc = "emit" /\ rec.time_tags # <<>>
    /\ IF overflow_checks /\ ReconstructOverflows(rec)
       THEN result' = "Panic" /\ pc' = "done" /\ UNCHANGED rec
       ELSE rec' = ReconstructToken(rec) /\ UNCHANGED <<pc, result>>
    /\ UNCHANGED <<driver, stage, input, pending, source, after_format,
                   line_number, metadata_lines, output_qrc_lines,
                   parsed_dialogues, warning_occurred, i,
                   last_calculated_property, out, created, log, codec, call,
                   overflow_checks>>

\* The text of the line once its tokens are done.
QrcFinalText(r) ==
    RemoveAll(r.ass_text_builder
                  \o TailPart(From(r.content_part, r.current_char_index),
                              r.header_end_ms, r.last_word_end_ms),
              "{\\k0}")

DialogueLine(start_ms, end_ms, ass_name, final_ass_text) ==
    "Dialogue: 0," \o milliseconds_to_time(start_ms) \o ","
        \o milliseconds_to_time(end_ms) \o ",Default," \o ass_name
        \o ",0,0,0,," \o final_ass_text

\* After the loop over the tokens: the rest of the line, and the Dialogue
\* line is written unless its text is empty.
Q2A_EndLine ==
    /\ driver = "qrc2ass" /\ pc = "emit" /\ rec.time_tags = <<>>
    /\ IF overflow_checks /\ ReconstructOverflows(rec)
       THEN result' = "Panic" /\ pc' = "done" /\ UNCHANGED <<rec, out>>
       ELSE /\ out' = IF QrcFinalText(rec) # ""
                      THEN Append(out, DialogueLine(rec.header_start_ms,
                                                    rec.header_end_ms,
                                                    "", QrcFinalText(rec)))
                      ELSE out
            /\ rec' = NoRec
            /\ pc' = "read"
            /\ UNCHANGED result
    /\ UNCHANGED <<driver, stage, input, pending, source, after_format,
                   line_number, metadata_lines, output_qrc_lines,
                   parsed_dialogues, warning_occurred, i,
                   last_calculated_property, created, log, codec, call,
                   overflow_checks>>

Q2A_Finish ==
    /\ driver = "qrc2ass" /\ pc = "read" /\ AtEof
    /\ result' = Ok(FALSE)
    /\ pc' = "done"
    /\ UNCHANGED <<driver, stage, input, pending, source, after_format,
                   line_number, metadata_lines, output_qrc_lines,
                   parsed_dialogues, warning_occurred, i,
                   last_calculated_property, rec, out, created, log, codec, call,
                   overflow_checks>>

(***************************************************************************)
(* ASS -> LYS.                                                             *)
(***************************************************************************)
\* What pass 1 does with the result r of parse_ass_dialogue_line on line n:
\* an error is returned by the `?`.
A2L_Collect(r, n) ==
    IF r.tag = "Err"
    THEN /\ Abort
         /\ UNCHANGED <<parsed_dialogues, warning_occurred, log>>
    ELSE IF r.tag = "None"
    THEN /\ log' = Append(log, Warn("dialogue_unparsed", Fmt(n)))
         /\ warning_occurred' = TRUE
         /\ UNCHANGED <<parsed_dialogues, pc, result>>
    ELSE /\ parsed_dialogues' = Append(parsed_dialogues, r.d)
         /\ IF IsAuxStyle(r.d.style)
            THEN UNCHANGED <<warning_occurred, log>>
            ELSE /\ warning_occurred' =
                        (warning_occurred
                            \/ ~check_time_consistency(r.d.duration_ms,
                                    r.d.sum_k_ms, r.d.line_number).ok)
                 /\ log' = log \o check_time_consistency(r.d.duration_ms,
                                      r.d.sum_k_ms, r.d.line_number).log
         /\ UNCHANGED <<pc, result>>

\* One turn of the read loop of pass 1 of convert_ass_to_lys.
A2L_ReadLine(line) ==
    /\ driver = "ass2lys" /\ pc = "read"
    /\ Consume(line)
    /\ line_number' = line_number + 1
    /\ IF ~after_format
       THEN /\ after_format' = IsFormatLine(line)
            /\ UNCHANGED <<metadata_lines, parsed_dialogues, warning_occurred,
                           log, pc, result>>
       ELSE IF META_COMMENT_REGEX(line).ok
       THEN /\ metadata_lines' = metadata_lines
                    \o parse_ass_metadata_text(META_COMMENT_REGEX(line).text)
            /\ UNCHANGED <<after_format, parsed_dialogues, warning_occurred,
                           log, pc, result>>
       ELSE IF StartsWith(line, "Dialogue:")
       THEN /\ A2L_Collect(parse_ass_dialogue_line(line, line_number + 1),
                           line_number + 1)
            /\ UNCHANGED <<after_format, metadata_lines>>
       ELSE UNCHANGED <<after_format, metadata_lines, parsed_dialogues,
                        warning_occurred, log, pc, result>>
    /\ UNCHANGED <<driver, stage, source, output_qrc_lines, i,
                   last_calculated_property, rec, out, created, codec, call,
                   overflow_checks>>

\* Between the passes: the output file is created and the metadata lines are
\* written.
A2L_EndPass1 ==
    /\ driver = "ass2lys" /\ pc = "read" /\ AtEof
    /\ created' = TRUE
    /\ out' = metadata_lines
    /\ last_calculated_property' = LYS_PROPERTY_UNSET
    /\ i' = 0
    /\ pc' = "pass2"
    /\ UNCHANGED <<driver, stage, input, pending, source, after_format,
                   line_number, metadata_lines, output_qrc_lines,
                   parsed_dialogues, warning_occurred, rec, result, log, codec, call,
                   overflow_checks>>

\* The LYS line of a dialogue under a property.
LysLine(property, d) ==
    "[" \o Fmt(property) \o "]" \o InlineTokens(d.segments, d.start_ms)

\* What pass 2 does with a dialogue it does not skip; r is what
\* calculate_lys_property returned and logged.
A2L_Emit(current_dialogue, r) ==
    /\ warning_occurred' = (warning_occurred \/ r.warned)
    /\ last_calculated_property' = r.property
    /\ out' = Append(out, LysLine(r.property, current_dialogue))
    /\ log' = log \o r.log

\* One turn of the loop of pass 2.
A2L_Pass2Step ==
    /\ driver = "ass2lys" /\ pc = "pass2" /\ i < Len(parsed_dialogues)
    /\ i' = i + 1
    /\ IF parsed_dialogues[i + 1].style = "ts"
            \/ parsed_dialogues[i + 1].style = "trans"
       THEN UNCHANGED <<warning_occurred, last_calculated_property, out, log>>
       ELSE A2L_Emit(parsed_dialogues[i + 1],
                     calculate_lys_property(
                         parsed_dialogues[i + 1],
                         IF i > 0 THEN <<parsed_dialogues[i]>> ELSE <<>>,
                         last_calculated_property))
    /\ UNCHANGED <<driver, stage, pc, input, pending, source, after_format,
                   line_number, metadata_lines, output_qrc_lines,
                   parsed_dialogues, rec, created, result, codec, call,
                   overflow_checks>>

A2L_Finish ==
    /\ driver = "ass2lys" /\ pc = "pass2" /\ i = Len(parsed_dialogues)
    /\ result' = Ok(warning_occurred)
    /\ pc' = "done"
    /\ UNCHANGED <<driver, stage, input, pending, source, after_format,
                   line_number, metadata_lines, output_qrc_lines,
                   parsed_dialogues, warning_occurred, i,
                   last_calculated_property, rec, out, created, log, codec, call,
                   overflow_checks>>

(***************************************************************************)
(* LYS -> ASS.                                                             *)
(***************************************************************************)
\* The first loop over the timestamps of a LYS line: min_start_ms starts at
\* usize::MAX, which no start is above, and ends as the least of the starts.
RECURSIVE MinStartMs(_)
MinStartMs(timestamps) ==
    IF Len(timestamps) = 1 THEN timestamps[1].start_ms
    ELSE LET m == MinStartMs(Tail(timestamps))
         IN  IF timestamps[1].start_ms <= m THEN timestamps[1].start_ms ELSE m

RECURSIVE MaxEndMs(_)
MaxEndMs(timestamps) ==
    IF timestamps = <<>> THEN 0
    ELSE LET m == MaxEndMs(Tail(timestamps))
             current_end_ms == saturating_add(timestamps[1].start_ms,
                                              timestamps[1].duration_ms)
         IN  IF current_end_ms > m THEN current_end_ms ELSE m

\* The Name of the Dialogue line of a property.
AssNameOf(property) ==
    IF property \in {LYS_PROPERTY_LEFT, LYS_PROPERTY_NO_BACK_LEFT,
                     LYS_PROPERTY_BACK_LEFT} THEN "￥ﾷﾦ"  \* 左 U+5DE6
    ELSE IF property \in {LYS_PROPERTY_RIGHT, LYS_PROPERTY_NO_BACK_RIGHT,
                          LYS_PROPERTY_BACK_RIGHT} THEN "￥ﾏﾳ"  \* 右 U+53F3
    ELSE IF property = LYS_PROPERTY_BACK_UNSET THEN "￨ﾃﾌ"  \* 背 U+80CC
    ELSE ""

\* The line under reconstruction once its timestamps are parsed; a number
\* that does not parse is the error returned, a line with no timestamp is
\* skipped, and a line whose min_start_ms is usize::MAX, all its starts being
\* usize::MAX, is skipped with a warning (a number above 2147483647 is the
\* only one that can be usize::MAX; the first test spares the evaluation of
\* usize::MAX on the others).  A property that does not parse is
\* LYS_PROPERTY_UNSET.  In
\* rec, header_start_ms and header_end_ms hold min_start_ms and max_end_ms,
\* content_part holds content, time_tags holds timestamps, last_word_end_ms
\* holds last_segment_end_ms, current_char_index holds last_char_pos and
\* ass_text_builder the parts joined.
L2A_Begin(property, content, parsed, n) ==
    IF ~parsed.ok
    THEN Abort /\ UNCHANGED <<rec, warning_occurred, log>>
    ELSE IF parsed.tags = <<>>
    THEN UNCHANGED <<pc, rec, result, warning_occurred, log>>
    ELSE IF /\ MinStartMs(parsed.tags) > 2147483647
            /\ MinStartMs(parsed.tags) = DecValue(UsizeMaxDigits)
    THEN /\ log' = Append(log, Warn("lys_no_timestamp", Fmt(n)))
         /\ warning_occurred' = TRUE
         /\ UNCHANGED <<pc, rec, result>>
    ELSE /\ rec' =
              [header_start_ms    |-> MinStartMs(parsed.tags),
               header_end_ms      |-> MaxEndMs(parsed.tags),
               property           |-> IF property.ok THEN property.v
                                      ELSE LYS_PROPERTY_UNSET,
               content_part       |-> content,
               time_tags          |-> SortByPos(parsed.tags),
               ass_text_builder   |-> "",
               last_word_end_ms   |-> MinStartMs(parsed.tags),
               current_char_index |-> 1]
         /\ pc' = "emit"
         /\ UNCHANGED <<result, warning_occurred, log>>

L2A_Line(line, n, prop_caps) ==
    IF prop_caps.ok
    THEN L2A_Begin(ParseUsize(prop_caps.property), prop_caps.content,
                   ParseWordTags(WORD_TIME_TAG_REGEX(prop_caps.content)), n)
    ELSE IF trim(line) # "" /\ ~StartsWith(line, "[")
    THEN /\ log' = Append(log, Warn("lys_unrecognised", Fmt(n)))
         /\ warning_occurred' = TRUE
         /\ UNCHANGED <<pc, rec, result>>
    ELSE UNCHANGED <<pc, rec, result, warning_occurred, log>>

\* One turn of the read loop of convert_lys_to_ass, up to the second loop
\* over the timestamps.
L2A_ReadLine(line) ==
    /\ driver = "lys2ass" /\ pc = "read"
    /\ Consume(line)
    /\ line_number' = line_number + 1
    /\ L2A_Line(line, line_number + 1, LYS_PROPERTY_REGEX(line))
    /\ UNCHANGED <<driver, stage, source, after_format, metadata_lines,
                   output_qrc_lines, parsed_dialogues, i,
                   last_calculated_property, out, created, codec, call,
                   overflow_checks>>

L2A_Token ==
    /\ driver = "lys2ass" /\ pc = "emit" /\ rec.time_tags # <<>>
    /\ IF overflow_checks /\ ReconstructOverflows(rec)
       THEN result' = "Panic" /\ pc' = "done" /\ UNCHANGED rec
       ELSE rec' = ReconstructToken(rec) /\ UNCHANGED <<pc, result>>
    /\ UNCHANGED <<driver, stage, input, pending, source, after_format,
                   line_number, metadata_lines, output_qrc_lines,
                   parsed_dialogues, warning_occurred, i,
                   last_calculated_property, out, created, log, codec, call,
                   overflow_checks>>

LysFinalText(r) ==
    r.ass_text_builder
        \o TailPart(From(r.content_part, r.current_char_index),
                    r.header_end_ms, r.last_word_end_ms)

L2A_EndLine ==
    /\ driver = "lys2ass" /\ pc = "emit" /\ rec.time_tags = <<>>
    /\ IF overflow_checks /\ ReconstructOverflows(rec)
       THEN result' = "Panic" /\ pc' = "done" /\ UNCHANGED <<rec, out>>
       ELSE /\ out' = IF LysFinalText(rec) # ""
                      THEN Append(out, DialogueLine(rec.header_start_ms,
                                                    rec.header_end_ms,
                                                    AssNameOf(rec.property), LysFinalText(rec)))
                      ELSE out
            /\ rec' = NoRec
            /\ pc' = "read"
            /\ UNCHANGED result
    /\ UNCHANGED <<driver, stage, input, pending, source, after_format,
                   line_number, metadata_lines, output_qrc_lines,
                   parsed_dialogues, warning_occurred, i,
                   last_calculated_property, created, log, codec, call,
                   overflow_checks>>

L2A_Finish ==
    /\ driver = "lys2ass" /\ pc = "read" /\ AtEof
    /\ result' = Ok(warning_occurred)
    /\ pc' = "done"
    /\ UNCHANGED <<driver, stage, input, pending, source, after_format,
                   line_number, metadata_lines, output_qrc_lines,
                   parsed_dialogues, warning_occurred, i,
                   last_calculated_property, rec, out, created, log, codec, call,
                   overflow_checks>>

(***************************************************************************)
(* The inverse conversion on the output of a conversion.                   *)
(***************************************************************************)
\* The second conversion reads the written file with reader.lines(), which
\* takes one carriage return off the end of each line.
Chain ==
    /\ pc = "done" /\ stage = 1 /\ result \notin {"Err", "Panic"}
    /\ Len(input) <= MaxChainLines
    /\ driver' = Inverse(driver)
    /\ stage' = 2
    /\ pc' = "start"
    /\ pending' = [k \in 1..Len(out) |->
                       IF out[k] # "" /\ Sub(out[k], Len(out[k]), Len(out[k])) = "\r"
                       THEN Sub(out[k], 1, Len(out[k]) - 1)
                       ELSE out[k]]
    /\ source' = input
    /\ input' = <<>>
    /\ after_format' = FALSE
    /\ line_number' = 0
    /\ metadata_lines' = <<>>
    /\ output_qrc_lines' = <<>>
    /\ parsed_dialogues' = <<>>
    /\ warning_occurred' = FALSE
    /\ i' = 0
    /\ last_calculated_property' = LYS_PROPERTY_UNSET
    /\ rec' = NoRec
    /\ out' = <<>>
    /\ created' = FALSE
    /\ result' = "none"
    /\ log' = <<>>
    /\ UNCHANGED <<codec, call, overflow_checks>>

(***************************************************************************)
(* execute_conversion: the wrapper of a conversion.                        *)
(***************************************************************************)
\* The boolean returned for the result of the wrapped conversion: Ok(_)
\* gives false, Err(e) gives true.
execute_conversion(action_result) ==
    IF action_result = "Err" THEN TRUE ELSE FALSE

\* The wrapper returns once the conversion has ended; an error is logged.
\* A panic unwinds through execute_conversion: nothing is returned.
Execute ==
    /\ pc = "done" /\ result # "Panic"
    /\ pc' = "returned"
    /\ call' = [pc |-> "returned", ret |-> execute_conversion(result)]
    /\ log' = IF result = "Err" THEN Append(log, <<"conversion_error", "">>)
              ELSE log
    /\ UNCHANGED <<driver, stage, input, pending, source, after_format,
                   line_number, metadata_lines, output_qrc_lines,
                   parsed_dialogues, warning_occurred, i,
                   last_calculated_property, rec, out, created, result, codec,
                   overflow_checks>>

Next ==
    \/ Start
    \/ \E line \in NextLines : A2Q_ReadLine(line)
    \/ A2Q_Finish
    \/ \E line \in NextLines : Q2A_ReadLine(line)
    \/ Q2A_Token
    \/ Q2A_EndLine
    \/ Q2A_Finish
    \/ \E line \in NextLines : A2L_ReadLine(line)
    \/ A2L_EndPass1
    \/ A2L_Pass2Step
    \/ A2L_Finish
    \/ \E line \in NextLines : L2A_ReadLine(line)
    \/ L2A_Token
    \/ L2A_EndLine
    \/ L2A_Finish
    \/ Chain
    \/ Execute

Spec == Init /\ [][Next]_vars

(***************************************************************************)
(* The time codec on its own: an instant is formatted, then parsed back.   *)
(***************************************************************************)
MaxCodecHours == 2

\* Instants at the ends of each field's range and off the centisecond grid.
CodecInstants ==
    { h * MILLISECONDS_PER_HOUR + m * MILLISECONDS_PER_MINUTE
          + s * MILLISECONDS_PER_SECOND + r :
        h \in (0..MaxCodecHours) \cup {10, 100}, m \in {0, 59}, s \in {0, 59},
        r \in {0, 5, 9, 10, 15, 990, 999} }

InitCodec ==
    /\ driver = "ass2qrc"
    /\ stage = 1
    /\ pc = "codec"
    /\ pending = <<>>
    /\ source = <<>>
    /\ Locals
    /\ \E ms \in CodecInstants : codec = [NoCodec EXCEPT !.pc = "format", !.ms = ms]
    /\ call = NoCall
    /\ overflow_checks \in BOOLEAN

CodecFormat ==
    /\ codec.pc = "format"
    /\ codec' = [codec EXCEPT !.pc = "parse",
                              !.time_str = milliseconds_to_time(codec.ms)]
    /\ UNCHANGED <<driver, stage, pc, input, pending, source, after_format,
                   line_number, metadata_lines, output_qrc_lines,
                   parsed_dialogues, warning_occurred, i,
                   last_calculated_property, rec, out, created, result, log,
                   call, overflow_checks>>

CodecParse ==
    /\ codec.pc = "parse"
    /\ codec' = [codec EXCEPT !.pc = "done",
                              !.back = time_to_milliseconds(codec.time_str)]
    /\ UNCHANGED <<driver, stage, pc, input, pending, source, after_format,
                   line_number, metadata_lines, output_qrc_lines,
                   parsed_dialogues, warning_occurred, i,
                   last_calculated_property, rec, out, created, result, log,
                   call, overflow_checks>>

NextCodec == CodecFormat \/ CodecParse

SpecCodec == InitCodec /\ [][NextCodec]_vars

(***************************************************************************)
(* The functions of the program called on their own: the call is made on   *)
(* an argument of a pool, and returns.                                     *)
(***************************************************************************)
\* The conversions stand still while a function is called on its own.
NoConversion ==
    /\ driver = "ass2qrc"
    /\ stage = 1
    /\ pc = "call"
    /\ pending = <<>>
    /\ source = <<>>
    /\ Locals
    /\ codec = NoCodec
    /\ overflow_checks \in BOOLEAN

Still ==
    UNCHANGED <<driver, stage, pc, input, pending, source, after_format,
                line_number, metadata_lines, output_qrc_lines, parsed_dialogues,
                warning_occurred, i, last_calculated_property, rec, out, created,
                result, log, codec, overflow_checks>>

\* Role tags: white space or none, a first word, and what may follow it.
RoleWords ==
    {"￥ﾷﾦ", "v1", "￥ﾐﾈ", "v1000", "￥ﾏﾳ", "v2", "x-duet", "x-anti", "￨ﾃﾌ", "x-bg",  \* 左 U+5DE6, 合 U+5408, 右 U+53F3, 背 U+80CC
     "￨ﾷﾯ￤ﾺﾺ", "V1", "X-BG", "￥ﾷﾦ￥ﾏﾳ", "v10"}  \* 路 U+8DEF, 人 U+4EBA, 左 U+5DE6, 右 U+53F3

RoleTags ==
    {<<>>, <<"">>, <<" ">>, <<" \t ">>, <<"\rￂﾠ">>}  \* white space U+00A0
        \cup { <<pre \o w \o post>> :
                 pre \in {"", " ", "\t ", "ￂﾠ\r"}, w \in RoleWords,  \* white space U+00A0
                 post \in {"", " ", " x", " ￨ﾃﾌ", "\tv2", "\r", "ￂﾠx"} }  \* 背 U+80CC, white space U+00A0

InitRole ==
    /\ NoConversion
    /\ \E name_opt \in RoleTags : call = [pc |-> "call", name_opt |-> name_opt]

RoleCall ==
    /\ call.pc = "call"
    /\ call' = [pc       |-> "done",
                name_opt |-> call.name_opt,
                ret      |-> map_ass_name_to_category(call.name_opt)]
    /\ Still

SpecRole == InitRole /\ [][RoleCall]_vars

\* Comment texts: a key, a colon or none, and a value.
MetaKeys ==
    {"musicName", "artists", "album", "ttmlAuthorGithubLogin", "mood",
     "Artists", " album ", "musicname", ""}

MetaValues == {"Song", " ", "", "a:b", " x y ", ":", "ￂﾠSong\r", "\f"}  \* white space U+00A0

MetaTexts ==
    { k \o sep \o v :
        k \in MetaKeys, sep \in {":", " :\t", "ￂﾠ:", ""}, v \in MetaValues }  \* white space U+00A0

InitMeta ==
    /\ NoConversion
    /\ \E text \in MetaTexts : call = [pc |-> "call", text |-> text]

MetaCall ==
    /\ call.pc = "call"
    /\ call' = [pc   |-> "done",
                text |-> call.text,
                ret  |-> parse_ass_metadata_text(call.text)]
    /\ Still

SpecMeta == InitMeta /\ [][MetaCall]_vars

(***************************************************************************)
(* The arithmetic of a dialogue line at the width of a usize.  A usize is  *)
(* its eight bytes, the least first; an operation gives the bytes of the   *)
(* wrapped result and whether the exact result needs more.  A build with   *)
(* overflow checks panics where the result needs more, a build without     *)
(* them goes on with the wrapped result.                                   *)
(***************************************************************************)
UsizeZero == <<0, 0, 0, 0, 0, 0, 0, 0>>

\* a * c + carry, for a small c.
RECURSIVE MulBytes(_, _, _)
MulBytes(a, c, carry) ==
    IF a = <<>> THEN [v |-> <<>>, over |-> carry # 0]
    ELSE LET t == Head(a) * c + carry
             r == MulBytes(Tail(a), c, t \div 256)
         IN  [v |-> <<t % 256>> \o r.v, over |-> r.over]

\* a + b + carry.
RECURSIVE AddBytes(_, _, _)
AddBytes(a, b, carry) ==
    IF a = <<>> THEN [v |-> <<>>, over |-> carry # 0]
    ELSE LET t == Head(a) + Head(b) + carry
             r == AddBytes(Tail(a), Tail(b), t \div 256)
         IN  [v |-> <<t % 256>> \o r.v, over |-> r.over]

\* The digit loop of str::parse::<usize>(): checked_mul(10) and
\* checked_add(digit), an error where the result does not fit.
RECURSIVE ParseBytes(_, _)
ParseBytes(digits, acc) ==
    IF digits = "" THEN [ok |-> TRUE, v |-> acc]
    ELSE IF Head(digits) \notin AsciiDigits THEN [ok |-> FALSE, v |-> UsizeZero]
    ELSE LET r == MulBytes(acc, 10, DigitVal(Head(digits)))
         IN  IF r.over THEN [ok |-> FALSE, v |-> UsizeZero]
             ELSE ParseBytes(Tail(digits), r.v)

\* str::parse::<usize>(): an optional '+', then one digit or more.
ParseUsizeBytes(s) ==
    LET body == IF StartsWith(s, "+") THEN Tail(s) ELSE s
    IN  IF body = "" THEN [ok |-> FALSE, v |-> UsizeZero]
        ELSE ParseBytes(body, UsizeZero)

\* The four `parse()? * unit` of time_to_milliseconds, in their order:
\* [tag, vs, over], vs the products and over the kinds of operation that
\* overflowed.
RECURSIVE TimeProducts(_, _, _)
TimeProducts(parts, units, checked) ==
    IF parts = <<>> THEN [tag |-> "Ok", vs |-> <<>>, over |-> {}]
    ELSE LET p == ParseUsizeBytes(Head(parts))
             m == MulBytes(p.v, Head(units), 0)
             r == TimeProducts(Tail(parts), Tail(units), checked)
         IN  IF ~p.ok THEN [tag |-> "Err", vs |-> <<>>, over |-> {}]
             ELSE IF m.over /\ checked
                 THEN [tag |-> "Panic", vs |-> <<>>, over |-> {"time_product"}]
             ELSE [tag  |-> r.tag,
                   vs   |-> <<m.v>> \o r.vs,
                   over |-> (IF m.over THEN {"time_product"} ELSE {}) \cup r.over]

\* time_to_milliseconds at the width of a usize: [tag, v, over].
time_to_milliseconds_bytes(time_str, checked) ==
    LET parts == SplitOn(time_str, {":", "."})
        prods == TimeProducts(parts,
                     << MILLISECONDS_PER_HOUR, MILLISECONDS_PER_MINUTE,
                        MILLISECONDS_PER_SECOND, CENTISECONDS_TO_MILLISECONDS >>,
                     checked)
        h_m   == AddBytes(prods.vs[1], prods.vs[2], 0)
        h_m_s == AddBytes(h_m.v, prods.vs[3], 0)
        sum   == AddBytes(h_m_s.v, prods.vs[4], 0)
        over  == prods.over \cup (IF h_m.over \/ h_m_s.over \/ sum.over
                                  THEN {"time_sum"} ELSE {})
    IN  IF Len(parts) # 4 THEN [tag |-> "Err", v |-> UsizeZero, over |-> {}]
        ELSE IF prods.tag # "Ok"
            THEN [tag |-> prods.tag, v |-> UsizeZero, over |-> prods.over]
        ELSE IF "time_sum" \in over /\ checked
            THEN [tag |-> "Panic", v |-> UsizeZero, over |-> over]
        ELSE [tag |-> "Ok", v |-> sum.v, over |-> over]

\* The loop over K_TAG_REGEX.captures_iter at the width of a usize:
\* [tag, segments, sum_k_ms, over].
RECURSIVE SegmentsBytes(_, _, _)
SegmentsBytes(caps, sum_k_ms, checked) ==
    IF caps = <<>>
    THEN [tag |-> "Ok", segments |-> <<>>, sum_k_ms |-> sum_k_ms, over |-> {}]
    ELSE LET k_cs   == ParseUsizeBytes(Head(caps).k_cs)
             seg_ms == MulBytes(k_cs.v, K_TAG_MULTIPLIER, 0)
             sum    == AddBytes(sum_k_ms, seg_ms.v, 0)
             here   == (IF seg_ms.over THEN {"k_product"} ELSE {})
                           \cup (IF sum.over THEN {"k_sum"} ELSE {})
             r      == SegmentsBytes(Tail(caps), sum.v, checked)
         IN  IF ~k_cs.ok
                 THEN [tag |-> "Err", segments |-> <<>>, sum_k_ms |-> UsizeZero,
                       over |-> {}]
             ELSE IF seg_ms.over /\ checked
                 THEN [tag |-> "Panic", segments |-> <<>>, sum_k_ms |-> UsizeZero,
                       over |-> {"k_product"}]
             ELSE IF sum.over /\ checked
                 THEN [tag |-> "Panic", segments |-> <<>>, sum_k_ms |-> UsizeZero,
                       over |-> {"k_sum"}]
             ELSE [tag      |-> r.tag,
                   segments |-> <<<<Head(caps).seg_text, seg_ms.v>>>> \o r.segments,
                   sum_k_ms |-> r.sum_k_ms,
                   over     |-> here \cup r.over]

\* The loop of the emitters over the segments at the width of a usize:
\* [tag, v, over], v the start after the last token.
RECURSIVE TokenStartsBytes(_, _, _)
TokenStartsBytes(segments, current_segment_start_ms, checked) ==
    IF segments = <<>>
    THEN [tag |-> "Ok", v |-> current_segment_start_ms, over |-> {}]
    ELSE LET seg_text            == Head(segments)[1]
             segment_duration_ms == Head(segments)[2]
             next == AddBytes(current_segment_start_ms, segment_duration_ms, 0)
             r    == TokenStartsBytes(Tail(segments), next.v, checked)
         IN  IF seg_text = "" /\ segment_duration_ms = UsizeZero
                 THEN TokenStartsBytes(Tail(segments), current_segment_start_ms,
                                       checked)
             ELSE IF next.over /\ checked
                 THEN [tag |-> "Panic", v |-> UsizeZero, over |-> {"token_start"}]
             ELSE [tag  |-> r.tag,
                   v    |-> r.v,
                   over |-> (IF next.over THEN {"token_start"} ELSE {}) \cup r.over]

\* Dialogue lines with numbers at the edge of a usize: the hours
\* 5124095576030 are the most whose milliseconds fit, the K count
\* 1844674407370955161 the most whose milliseconds fit.
WideTimes ==
    {"0:00:00.00", "0:00:01.00", "5124095576030:00:00.00",
     "5124095576031:00:00.00", "5124095576030:59:59.99",
     "18446744073709551616:00:00.00"}

WideTexts ==
    {"{\\k50}a{\\k50}b", "{\\k0}{\\k1844674407370955161}a",
     "{\\k1844674407370955162}a",
     "{\\k1844674407370955161}a{\\k1844674407370955161}b",
     "{\\k50}a{\\k99999999999999999999}b"}

WideLines ==
    { "Dialogue: 0," \o start \o "," \o end \o ",Default,,0,0,0,," \o text :
        start \in WideTimes, end \in {"0:00:02.00", "5124095576031:00:00.00"},
        text \in WideTexts }

InitWide ==
    /\ NoConversion
    /\ \E line \in WideLines :
          call = [pc |-> "call", line |-> line,
                  tag |-> "Ok", over |-> {}, start_ms |-> UsizeZero,
                  segments |-> <<>>, sum_k_ms |-> UsizeZero]

\* parse_ass_dialogue_line: the start, the end, then the segments.
WideParse ==
    /\ call.pc = "call"
    /\ \E caps \in {ASS_DIALOGUE_REGEX(call.line)} :
       \E start_ms \in {time_to_milliseconds_bytes(caps.start_time,
                                                    overflow_checks)},
          end_ms \in {time_to_milliseconds_bytes(caps.end_time,
                                                  overflow_checks)},
          segs \in {SegmentsBytes(K_TAG_REGEX(caps.text), UsizeZero,
                                  overflow_checks)} :
         call' =
             IF start_ms.tag # "Ok"
                 THEN [call EXCEPT !.pc = "returned", !.tag = start_ms.tag,
                                   !.over = start_ms.over]
             ELSE IF end_ms.tag # "Ok"
                 THEN [call EXCEPT !.pc = "returned", !.tag = end_ms.tag,
                                   !.over = start_ms.over \cup end_ms.over]
             ELSE [call EXCEPT !.pc = IF segs.tag = "Ok" THEN "parsed"
                                      ELSE "returned",
                               !.tag = segs.tag,
                               !.over = start_ms.over \cup end_ms.over
                                            \cup segs.over,
                               !.start_ms = start_ms.v,
                               !.segments = segs.segments,
                               !.sum_k_ms = segs.sum_k_ms]
    /\ Still

\* The token loop of process_dialogue_for_qrc and of convert_ass_to_lys.
WideEmit ==
    /\ call.pc = "parsed"
    /\ LET r == TokenStartsBytes(call.segments, call.start_ms, overflow_checks)
       IN  call' = [call EXCEPT !.pc = "returned", !.tag = r.tag,
                                !.over = call.over \cup r.over]
    /\ Still

SpecWide == InitWide /\ [][WideParse \/ WideEmit]_vars

(***************************************************************************)
(* check_ass_has_special_names: the choice of automatic mode between LYS   *)
(* and QRC for an ASS file.                                                *)
(***************************************************************************)
\* The read loop from a line on, header_seen its local after_format: true at the first
\* Dialogue line after the column header whose Name is one of the nine
\* texts, false at the end of the file.
RECURSIVE check_ass_has_special_names(_, _)
check_ass_has_special_names(lines, header_seen) ==
    IF lines = <<>> THEN FALSE
    ELSE IF ~header_seen
        THEN check_ass_has_special_names(Tail(lines), IsFormatLine(Head(lines)))
    ELSE IF /\ StartsWith(Head(lines), "Dialogue:")
            /\ ASS_DIALOGUE_REGEX(Head(lines)).ok
            /\ ASS_DIALOGUE_REGEX(Head(lines)).name
                   \in {"", "v1", "￥ﾷﾦ", "￥ﾏﾳ", "v2", "x-duet", "x-anti", "￨ﾃﾌ", "x-bg"}  \* 左 U+5DE6, 右 U+53F3, 背 U+80CC
        THEN TRUE
    ELSE check_ass_has_special_names(Tail(lines), TRUE)

\* Files of two or three lines: a first line, which is the column header or
\* not, then Dialogue lines of several Names, a line the Dialogue regex does
\* not match and a line that is no Dialogue.
SpecialNames ==
    {"", "v1", "￥ﾷﾦ", "￥ﾏﾳ", "x-anti", "￨ﾃﾌ", "x-bg", "v1000", " ￥ﾷﾦ", "￥ﾷﾦ x",  \* 左 U+5DE6, 右 U+53F3, 背 U+80CC
     "￥ﾐﾈ", " ", "￨ﾷﾯ￤ﾺﾺ", "V1"}  \* 合 U+5408, 路 U+8DEF, 人 U+4EBA

SpecialLines ==
    { "Dialogue: 0,0:00:01.00,0:00:02.00,Default," \o name \o ",0,0,0,,{\\k100}a" :
        name \in SpecialNames }
        \cup {"Dialogue: 0,0:00:01.00,￥ﾷﾦ", "[Events]"}  \* 左 U+5DE6

SpecialFiles ==
    LET first == {FormatLine,
                  "Dialogue: 0,0:00:01.00,0:00:02.00,Default,￥ﾷﾦ,0,0,0,,{\\k100}a"}  \* 左 U+5DE6
    IN  { <<f, a>> : f \in first, a \in SpecialLines }
            \cup { <<f, a, b>> : f \in first, a \in SpecialLines, b \in SpecialLines }

InitSpecial ==
    /\ NoConversion
    /\ \E lines \in SpecialFiles : call = [pc |-> "call", lines |-> lines]

SpecialCall ==
    /\ call.pc = "call"
    /\ call' = [pc    |-> "done",
                lines |-> call.lines,
                ret   |-> check_ass_has_special_names(call.lines, FALSE)]
    /\ Still

SpecSpecial == InitSpecial /\ [][SpecialCall]_vars

(***************************************************************************)
(* Properties.                                                             *)
(***************************************************************************)
Last(seq) == seq[Len(seq)]

\* Line k of an ASS file is read after its column header.
AfterFormat(lines, k) == \E j \in 1..(k - 1) : IsFormatLine(lines[j])

\* Line k of an ASS file is a Dialogue line the read loop hands to the parser.
IsDialogueAt(lines, k) ==
    /\ AfterFormat(lines, k)
    /\ ~META_COMMENT_REGEX(lines[k]).ok
    /\ StartsWith(lines[k], "Dialogue:")

\* The line parses, has karaoke segments and no silent gap: its segment
\* durations sum to end - start.
C1_NoGaps(line) ==
    LET p == parse_ass_dialogue_line(line, 0)
    IN  /\ p.tag = "Some"
        /\ p.d.segments # <<>>
        /\ p.d.sum_k_ms = p.d.duration_ms

\* Moreover every segment lasts a centisecond or more and no segment text
\* holds an inline timestamp.
C1_Eligible(line) ==
    LET p == parse_ass_dialogue_line(line, 0)
    IN  /\ C1_NoGaps(line)
        /\ \A k \in 1..Len(p.d.segments) :
              /\ p.d.segments[k][2] > 0
              /\ WORD_TIME_TAG_REGEX(p.d.segments[k][1]) = <<>>

\* The written line has the segments, the start and the end of the original.
C1_Same(line, written) ==
    LET a == parse_ass_dialogue_line(line, 0)
        b == parse_ass_dialogue_line(written, 0)
    IN  /\ b.tag = "Some"
        /\ b.d.segments = a.d.segments
        /\ b.d.start_ms = a.d.start_ms
        /\ b.d.start_ms + b.d.duration_ms = a.d.start_ms + a.d.duration_ms

\* QRC->ASS has run to its end on the output of ASS->QRC.
C1_BackInAss == driver = "qrc2ass" /\ stage = 2 /\ pc = "done"

\* C1 as the spec states it: every dialogue line with karaoke segments and
\* no silent gap comes back from ASS->QRC->ASS with its segments, its start
\* and its end.
C1_RoundTripNoGaps ==
    C1_BackInAss =>
        /\ result # "Err"
        /\ \A k \in 1..Len(source) :
              (IsDialogueAt(source, k) /\ C1_NoGaps(source[k])) =>
                  \E m \in 1..Len(out) : C1_Same(source[k], out[m])

\* C1: every dialogue line with karaoke segments, no silent gap, every
\* segment of a centisecond or more and no inline timestamp in a segment
\* text comes back from ASS->QRC->ASS with its sequence of (text, duration)
\* segments, its start and its end.
C1_RoundTrip ==
    C1_BackInAss =>
        /\ result # "Err"
        /\ \A k \in 1..Len(source) :
              (IsDialogueAt(source, k) /\ C1_Eligible(source[k])) =>
                  \E m \in 1..Len(out) : C1_Same(source[k], out[m])

\* A line of two segments came back.
C1_Witness ==
    /\ C1_BackInAss
    /\ \E k \in 1..Len(source) :
          /\ IsDialogueAt(source, k)
          /\ C1_Eligible(source[k])
          /\ Len(parse_ass_dialogue_line(source[k], 0).d.segments) = 2
          /\ \E m \in 1..Len(out) : C1_Same(source[k], out[m])

\* C2 as the spec states it: formatting an instant and parsing it back gives
\* the instant, for every instant.
C2_RoundTripIdentity ==
    codec.pc = "done" => (codec.back.ok /\ codec.back.v = codec.ms)

\* C2: formatting an instant and parsing it back succeeds and gives the
\* instant truncated to the centisecond, ms - (ms mod 10); it gives the
\* instant itself exactly when the instant is a multiple of 10 ms.
C2_RoundTripTruncates ==
    codec.pc = "done" =>
        /\ codec.back.ok
        /\ codec.back.v = codec.ms - (codec.ms % 10)
        /\ (codec.back.v = codec.ms) <=> (codec.ms % 10 = 0)

\* An instant off the centisecond grid, an hour or more, went through.
C2_Witness ==
    /\ codec.pc = "done"
    /\ codec.ms % 10 # 0
    /\ codec.ms >= MILLISECONDS_PER_HOUR
    /\ codec.back.ok

\* d + 5 is above usize::MAX (a number of at most 2147483647 - 5 is not; the
\* first test spares the evaluation of usize::MAX on such numbers).
C3_Overflows(d) == d > 2147483647 - 5 /\ d + 5 > DecValue(UsizeMaxDigits)

\* The tag of d milliseconds under the rounding law: K-value (d + 5) div 10,
\* and no tag when that is 0; no tag either when d + 5 is above usize::MAX,
\* where the sum that wraps is 4 at most.
C3_Tag(d) ==
    IF C3_Overflows(d) \/ (d + 5) \div 10 = 0 THEN ""
    ELSE "{\\k" \o ToString((d + 5) \div 10) \o "}"

\* The build checks overflow and a sum d + 5 of the step to come, for the
\* gap or for the token, or for the time left at the end of the line, is
\* above usize::MAX.
C3_Panics ==
    /\ overflow_checks
    /\ IF rec.time_tags # <<>>
       THEN \/ /\ Head(rec.time_tags).start_ms > rec.last_word_end_ms
               /\ C3_Overflows(Head(rec.time_tags).start_ms - rec.last_word_end_ms)
            \/ C3_Overflows(Head(rec.time_tags).duration_ms)
       ELSE /\ rec.header_end_ms > rec.last_word_end_ms
            /\ C3_Overflows(rec.header_end_ms - rec.last_word_end_ms)

C3_Gap(from_ms, to_ms) == IF to_ms > from_ms THEN C3_Tag(to_ms - from_ms) ELSE ""

C3_FinalText(text) ==
    IF driver = "qrc2ass" THEN RemoveAll(text, "{\\k0}") ELSE text


C10_Line == "[500,2500]word1(1000,500)word2(2000,500)"

\* The line of the example has just been converted.
C10_Converted ==
    /\ driver = "qrc2ass" /\ stage = 1 /\ pc \in {"read", "done"}
    /\ input # <<>>
    /\ Last(input) = C10_Line

\* C10 as the spec states it: the text reconstructed for the line consists
\* of exactly four tags of K-value 50 interleaved with word1 and word2.
C10_FourTags ==
    C10_Converted =>
        LET text == ASS_DIALOGUE_REGEX(Last(out)).text
            tags == K_TAG_REGEX(text)
        IN  /\ Len(tags) = 4
            /\ \A k \in 1..Len(tags) : tags[k].k_cs = "50"
            /\ Find(text, "word1", 1) > 0
            /\ Find(text, "word2", 1) > Find(text, "word1", 1)

\* C10: the text reconstructed for the line consists of exactly five tags of
\* K-value 50: the gap 500->1000 before the first word, word1, the gap
\* 1500->2000, word2, and the gap 2500->3000 to the end of the line; the
\* Dialogue line runs from 0:00:00.50 to 0:00:03.00.
C10_FiveTags ==
    C10_Converted =>
        Last(out) = "Dialogue: 0,0:00:00.50,0:00:03.00,Default,,0,0,0,,"
                        \o "{\\k50}{\\k50}word1{\\k50}{\\k50}word2{\\k50}"

C10_Witness ==
    /\ C10_Converted
    /\ pc = "done"
    /\ result = "Ok(false)"
    /\ Len(out) = Len(AssHeader) + 1

\* Pass 2 of ASS->LYS is under way or over.
InPass2 == driver = "ass2lys" /\ pc \in {"pass2", "done"} /\ result # "Err"

\* Dialogue k has been given a line of the output.
C4_Emitted(k) ==
    /\ k <= i
    /\ parsed_dialogues[k].style # "ts"
    /\ parsed_dialogues[k].style # "trans"

\* The property code at the head of the line of dialogue k.
C4_CodeOf(k) ==
    LYS_PROPERTY_REGEX(
        out[Len(metadata_lines) + Cardinality({j \in 1..k : C4_Emitted(j)})]
    ).property

C4_Background(k) ==
    map_ass_name_to_category(parsed_dialogues[k].name).category = "Background"

C4_Left(k) == parsed_dialogues[k].name = <<"￥ﾷﾦ">>  \* 左 U+5DE6

\* C4: in ASS->LYS, of three consecutive dialogue lines of roles 左, 背, 背
\* each background line written gets code 7, the code of the pair 左, 背;
\* and in a run of consecutive background lines every line written gets
\* the code of the first of them written.
C4_BackgroundInheritance ==
    InPass2 =>
        /\ \A k \in 2..i :
              (C4_Left(k - 1) /\ C4_Background(k)) =>
                  /\ C4_Emitted(k) => C4_CodeOf(k) = "7"
                  /\ (k < i /\ C4_Background(k + 1) /\ C4_Emitted(k + 1)) =>
                         C4_CodeOf(k + 1) = "7"
        /\ \A j \in 1..i : \A k \in (j + 1)..i :
              (/\ \A m \in j..k : C4_Background(m)
               /\ C4_Emitted(j) /\ C4_Emitted(k)) =>
                  C4_CodeOf(k) = C4_CodeOf(j)

\* C5: in ASS->LYS, the step of pass 2 on a dialogue of style ts, trans or
\* roma, in any letter case, writes no line.
C5_AuxiliaryExcluded ==
    [][ (/\ driver = "ass2lys" /\ pc = "pass2" /\ i < Len(parsed_dialogues)
         /\ IsAuxStyle(parsed_dialogues[i + 1].style)) => out' = out ]_vars

\* The Dialogue lines of an ASS file that parse.
C6_Parsed(lines) ==
    { k \in 1..Len(lines) :
        /\ IsDialogueAt(lines, k)
        /\ parse_ass_dialogue_line(lines[k], k).tag = "Some" }

\* C6: ASS->QRC and ASS->LYS end in success whatever Dialogue line failed to
\* parse, with every Dialogue line that parses converted.
C6_ParseFailureNonFatal ==
    (ReadsAss(driver) /\ pc = "done") =>
        /\ result # "Err"
        /\ driver = "ass2qrc" =>
              Len(output_qrc_lines) = Cardinality(C6_Parsed(input))
        /\ driver = "ass2lys" =>
              Len(parsed_dialogues) = Cardinality(C6_Parsed(input))

\* C7: QRC->ASS and LYS->ASS end in success whatever number of a line failed
\* to parse.
C7_ParseFailureNonFatal ==
    (driver \in {"qrc2ass", "lys2ass"} /\ pc = "done") => result # "Err"

\* C8: when ASS->LYS ends, the warnings logged for an undefined role are as
\* many as the dialogue lines classified Other, and with one or more of them
\* the result is success with the warnings flag true.
C8_OneWarningPerOccurrence ==
    (driver = "ass2lys" /\ pc = "done" /\ result # "Err") =>
        LET others == { k \in 1..Len(parsed_dialogues) :
                          map_ass_name_to_category(parsed_dialogues[k].name)
                              .category = "Other" }
        IN  /\ Len(SelectSeq(log, LAMBDA w : w[1] = "undefined_name"))
                   = Cardinality(others)
            /\ others # {} => result = "Ok(true)"

\* What the tokens of a line that start after the end of the token before
\* them, with a gap of nonzero K-value, must have put in the text: the tag
\* of the gap, then the token's own tag and text.
RECURSIVE C9_Pieces(_, _, _, _)
C9_Pieces(content, tags, last_end_ms, from) ==
    IF tags = <<>> THEN {}
    ELSE LET t    == Head(tags)
             rest == C9_Pieces(content, Tail(tags), t.start_ms + t.duration_ms,
                               t.end_pos)
         IN  IF t.start_ms > last_end_ms
                    /\ (t.start_ms - last_end_ms + 5) \div 10 # 0
             THEN {C3_Tag(t.start_ms - last_end_ms) \o C3_Tag(t.duration_ms)
                       \o Sub(content, from, t.start_pos - 1)} \cup rest
             ELSE rest

\* C9: in QRC->ASS and LYS->ASS, when a line is done, the line written holds,
\* for each of its tokens that starts after the end of the token before it
\* (the line start for the first) with a gap of nonzero K-value, the tag of
\* the gap right before the token's own tag and text.
C9_GapTagBeforeToken ==
    [][ (pc = "emit" /\ rec.time_tags = <<>>) =>
            \A piece \in C9_Pieces(rec.content_part,
                             ParseWordTags(WORD_TIME_TAG_REGEX(rec.content_part)).tags,
                             rec.header_start_ms, 1) :
                /\ Len(out') = Len(out) + 1
                /\ Contains(Last(out'), piece) ]_vars

\* C11: in QRC->ASS and LYS->ASS, every inline token of a line is handed to
\* the reconstruction, and the step of a token of K-value zero with text
\* before it appends that text and nothing else after the tag of the gap
\* before the token, and moves the end of the last segment to the token's
\* start + duration.
C11_ZeroKTextOnly ==
    [][ /\ (pc = "read" /\ pc' = "emit") =>
              rec'.time_tags =
                  SortByPos(ParseWordTags(WORD_TIME_TAG_REGEX(rec'.content_part)).tags)
        /\ (/\ pc = "emit" /\ rec.time_tags # <<>>
            /\ (Head(rec.time_tags).duration_ms + 5) \div 10 = 0
            /\ Sub(rec.content_part, rec.current_char_index,
                   Head(rec.time_tags).start_pos - 1) # "") =>
              /\ rec'.ass_text_builder =
                     rec.ass_text_builder
                         \o C3_Gap(rec.last_word_end_ms, Head(rec.time_tags).start_ms)
                         \o Sub(rec.content_part, rec.current_char_index,
                                Head(rec.time_tags).start_pos - 1)
              /\ rec'.last_word_end_ms =
                     Head(rec.time_tags).start_ms + Head(rec.time_tags).duration_ms
      ]_vars

\* The category of the role of dialogue k.
C12_Category(k) == map_ass_name_to_category(parsed_dialogues[k].name).category

\* The dialogues before dialogue k that pass 2 gives a line.
C12_EmittedBefore(k) ==
    { j \in 1..(k - 1) :
        parsed_dialogues[j].style # "ts" /\ parsed_dialogues[j].style # "trans" }

\* The code of dialogue k by the table of the claim; the previous line is
\* the last line emitted before it, and last is the last property code.
C12_Code(k, last) ==
    CASE C12_Category(k) = "LeftV1" -> 4
      [] C12_Category(k) = "RightV2" -> 5
      [] C12_Category(k) = "Other" -> 0
      [] C12_Category(k) = "Background" ->
            (IF C12_EmittedBefore(k) = {} THEN 6
             ELSE LET prev == CHOOSE j \in C12_EmittedBefore(k) :
                                  \A m \in C12_EmittedBefore(k) : m <= j
                  IN  CASE C12_Category(prev) = "LeftV1" -> 7
                        [] C12_Category(prev) = "RightV2" -> 8
                        [] C12_Category(prev) = "Other" -> 6
                        [] C12_Category(prev) = "Background" -> last)

\* C12: in ASS->LYS, every line pass 2 emits carries the code of the table:
\* 4, 5 or 0 for a line of category PrimaryOrUnset, DuetOrSecondary or Other,
\* and for a Background line 7, 8 or 6 after a line of category
\* PrimaryOrUnset, DuetOrSecondary, or Other or no line, and the last
\* property code after a Background line; and that code becomes the last
\* property code.
C12_PropertyTable ==
    [][ (/\ driver = "ass2lys" /\ pc = "pass2" /\ i < Len(parsed_dialogues)
         /\ out' # out) =>
            /\ Len(out') = Len(out) + 1
            /\ LYS_PROPERTY_REGEX(Last(out')).property
                   = ToString(C12_Code(i + 1, last_calculated_property))
            /\ last_calculated_property' = C12_Code(i + 1, last_calculated_property)
      ]_vars

C13_Primary == {"￥ﾷﾦ", "v1", "￥ﾐﾈ", "v1000"}  \* 左 U+5DE6, 合 U+5408

C13_Secondary == {"￥ﾏﾳ", "v2", "x-duet", "x-anti"}  \* 右 U+53F3

C13_BackgroundKeys == {"￨ﾃﾌ", "x-bg"}  \* 背 U+80CC

\* The first of the words of s that white space delimits; s holds one.
C13_FirstToken(s) == SplitOn(trim(s), WhiteSpace)[1]

\* C13: map_ass_name_to_category returns PrimaryOrUnset (LeftV1) with no
\* warning for a missing tag and for a tag empty after trimming; for any
\* other tag the first word of the trimmed tag alone decides, compared as it
\* is written: a primary keyword gives PrimaryOrUnset, a secondary keyword
\* DuetOrSecondary (RightV2), a background keyword Background, with no
\* warning, and any other word gives Other with the warning flag set.
C13_RoleClassifier ==
    (call.pc = "done") =>
        IF call.name_opt = <<>> \/ trim(call.name_opt[1]) = ""
        THEN call.ret.category = "LeftV1" /\ ~call.ret.warned /\ call.ret.log = <<>>
        ELSE LET w == C13_FirstToken(call.name_opt[1])
             IN  /\ w \in C13_Primary =>
                        (call.ret.category = "LeftV1" /\ ~call.ret.warned
                            /\ call.ret.log = <<>>)
                 /\ w \in C13_Secondary =>
                        (call.ret.category = "RightV2" /\ ~call.ret.warned
                            /\ call.ret.log = <<>>)
                 /\ w \in C13_BackgroundKeys =>
                        (call.ret.category = "Background" /\ ~call.ret.warned
                            /\ call.ret.log = <<>>)
                 /\ w \notin (C13_Primary \cup C13_Secondary \cup C13_BackgroundKeys) =>
                        (call.ret.category = "Other" /\ call.ret.warned
                            /\ Len(call.ret.log) = 1)

\* A tag of the primary keyword 合 after white space and before another
\* word was classified PrimaryOrUnset with no warning.
C13_Witness ==
    /\ call.pc = "done"
    /\ call.name_opt = <<"\t ￥ﾐﾈ x">>  \* 合 U+5408
    /\ call.ret.category = "LeftV1"
    /\ ~call.ret.warned

\* The parsed dialogue lines of the input whose declared duration differs
\* from the sum of their segments, those of style roma, trans or ts left out.
C14_Mismatching(lines) ==
    { k \in C6_Parsed(lines) :
        LET d == parse_ass_dialogue_line(lines[k], k).d
        IN  ~IsAuxStyle(d.style) /\ d.duration_ms # d.sum_k_ms }

C14_Converted(k) ==
    IF driver = "ass2qrc"
    THEN \E j \in 1..Len(out) :
            out[j] = process_dialogue_for_qrc(input[k], k).qrc_line
    ELSE /\ \E j \in 1..Len(parsed_dialogues) : parsed_dialogues[j].line_number = k
         /\ Len(SelectSeq(out, LAMBDA l : LYS_PROPERTY_REGEX(l).ok))
                = Len(SelectSeq(parsed_dialogues,
                                LAMBDA d : d.style \notin {"ts", "trans"}))

\* C14: check_time_consistency is false exactly when the two durations
\* differ; when ASS->QRC or ASS->LYS ends, the mismatch warnings are those of
\* the parsed dialogue lines not of style roma, trans or ts whose durations
\* differ, and with one or more of them the conversion has succeeded with the
\* warnings result true and has converted each of them.
C14_MismatchNonFatal ==
    (ReadsAss(driver) /\ pc = "done") =>
        /\ \A k \in C6_Parsed(input) :
              LET d == parse_ass_dialogue_line(input[k], k).d
              IN  check_time_consistency(d.duration_ms, d.sum_k_ms, k).ok
                      = (d.duration_ms = d.sum_k_ms)
        /\ C14_Mismatching(input) # {} =>
              /\ result = "Ok(true)"
              /\ { w[2] : w \in { log[j] : j \in { n \in 1..Len(log) :
                                                     log[n][1] = "time_mismatch" } } }
                     = { Fmt(k) : k \in C14_Mismatching(input) }
              /\ \A k \in C14_Mismatching(input) : C14_Converted(k)

\* The line is a Dialogue line whose times and K counts parse and whose end
\* time is earlier than its start time.
C15_EndsBeforeStart(line) ==
    LET caps == ASS_DIALOGUE_REGEX(line)
    IN  /\ caps.ok
        /\ time_to_milliseconds(caps.start_time).ok
        /\ time_to_milliseconds(caps.end_time).ok
        /\ time_to_milliseconds(caps.end_time).v
               < time_to_milliseconds(caps.start_time).v
        /\ ParseSegments(K_TAG_REGEX(caps.text)).ok

\* C15: a Dialogue line whose end time is earlier than its start time is
\* parsed into a record of duration_ms 0, and the turn of the read loop of
\* ASS->QRC that reads it goes on with one more QRC line, of header
\* [start,0].
C15_ClampedDuration ==
    [][ (/\ driver = "ass2qrc" /\ pc = "read" /\ after_format
         /\ Len(input') = Len(input) + 1
         /\ ~META_COMMENT_REGEX(Last(input')).ok
         /\ StartsWith(Last(input'), "Dialogue:")
         /\ C15_EndsBeforeStart(Last(input'))) =>
            LET line  == Last(input')
                p     == parse_ass_dialogue_line(line, line_number')
                start == time_to_milliseconds(ASS_DIALOGUE_REGEX(line).start_time).v
            IN  /\ p.tag = "Some"
                /\ p.d.duration_ms = 0
                /\ p.d.start_ms = start
                /\ pc' = "read"
                /\ Len(output_qrc_lines') = Len(output_qrc_lines) + 1
                /\ SubSeq(output_qrc_lines', 1, Len(output_qrc_lines)) = output_qrc_lines
                /\ StartsWith(Last(output_qrc_lines'), "[" \o Fmt(start) \o ",0]")
      ]_vars

\* ASS->QRC has written the line that ends one second before it starts.
C15_Witness ==
    /\ driver = "ass2qrc" /\ stage = 1 /\ pc = "done" /\ result = "Ok(false)"
    /\ input # <<>> /\ out # <<>>
    /\ C15_EndsBeforeStart(Last(input))
    /\ Last(out) = "[2000,0]z(2000,100)"

\* The property codes ASS->LYS can write.
C16_Codes == {"0", "4", "5", "6", "7", "8"}

\* The lines of a LYS file that carry a property code.
C16_Coded(lines) == SelectSeq(lines, LAMBDA l : LYS_PROPERTY_REGEX(l).ok)

\* C16: when ASS->LYS has run to its end on the output of LYS->ASS, and the
\* lines of the original LYS file all carry a code ASS->LYS can write and
\* all came back, each line has the property code it had in the original.
C16_PropertyRoundTrip ==
    (driver = "ass2lys" /\ stage = 2 /\ pc = "done") =>
        LET before == C16_Coded(source)
            after  == C16_Coded(out)
        IN  (/\ \A k \in 1..Len(before) :
                    LYS_PROPERTY_REGEX(before[k]).property \in C16_Codes
             /\ Len(after) = Len(before)) =>
                \A k \in 1..Len(before) :
                    LYS_PROPERTY_REGEX(after[k]).property
                        = LYS_PROPERTY_REGEX(before[k]).property

\* The column-header line of the events of an ASS file.
C17_ColumnHeader(line) ==
    StartsWith(trim_start(line), "Format: Layer, Start, End, Style, Name,")

\* Seeking: no line read so far is the column-header line.
C17_Seeking == \A k \in 1..Len(input) : ~C17_ColumnHeader(input[k])

\* A turn of the read loop that reads a line.
C17_ReadsLine == pc = "read" /\ Len(input') = Len(input) + 1

\* The turn classifies nothing and adds nothing to what the output is made
\* of.
C17_Skips ==
    /\ pc' = "read"
    /\ UNCHANGED <<metadata_lines, output_qrc_lines, parsed_dialogues,
                   warning_occurred, rec, out, result, log>>

\* Every token starts at usize::MAX, 18446744073709551615 (a number of at
\* most 2147483647 is not usize::MAX; the first test spares the evaluation
\* of usize::MAX on such numbers).
C17_AllStartsMax(tags) ==
    \A k \in 1..Len(tags) :
        /\ tags[k].start_ms > 2147483647
        /\ tags[k].start_ms = DecValue(UsizeMaxDigits)

\* C17 as the spec states it: in each of the four drivers a line read while
\* the column-header line has not been seen is skipped.
C17_SeekingInAllDrivers ==
    [][ (C17_ReadsLine /\ C17_Seeking) => C17_Skips ]_vars

\* C17: in ASS->QRC and ASS->LYS a line read while the column-header line
\* has not been seen is skipped, the flag after_format is true exactly when
\* the column-header line has been read, and it never goes back to false
\* in the conversion; QRC->ASS and LYS->ASS have no Seeking state and take
\* up the tokens of their first line when it has some, but that LYS->ASS
\* skips with a warning a line whose tokens all start at usize::MAX.
C17_SeekingInAssDrivers ==
    [][ /\ ReadsAss(driver) =>
              /\ after_format = ~C17_Seeking
              /\ (C17_ReadsLine /\ C17_Seeking) => C17_Skips
              /\ (after_format /\ driver' = driver) => after_format'
        /\ (/\ ~ReadsAss(driver) /\ C17_ReadsLine /\ input = <<>>
            /\ IF driver = "qrc2ass"
               THEN /\ QRC_TIMESTAMP_REGEX(Last(input')).ok
                    /\ ParseUsize(QRC_TIMESTAMP_REGEX(Last(input')).start).ok
                    /\ ParseUsize(QRC_TIMESTAMP_REGEX(Last(input')).duration).ok
               ELSE LYS_PROPERTY_REGEX(Last(input')).ok
            /\ ParseWordTags(WORD_TIME_TAG_REGEX(Last(input'))).ok
            /\ ParseWordTags(WORD_TIME_TAG_REGEX(Last(input'))).tags # <<>>) =>
              IF driver = "lys2ass"
                    /\ C17_AllStartsMax(ParseWordTags(
                                            WORD_TIME_TAG_REGEX(Last(input'))).tags)
              THEN /\ pc' = "read" /\ rec' = rec /\ out' = out
                   /\ warning_occurred'
                   /\ log' = Append(log, Warn("lys_no_timestamp", "1"))
              ELSE pc' = "emit" /\ rec' # NoRec
      ]_vars

\* ASS->QRC skipped a Dialogue line read before the column-header line, then
\* converted a Dialogue line read after it.
C17_Witness ==
    /\ driver = "ass2qrc" /\ stage = 1 /\ pc = "done"
    /\ Len(input) = 3
    /\ StartsWith(input[1], "Dialogue:")
    /\ C17_ColumnHeader(input[2])
    /\ StartsWith(input[3], "Dialogue:")
    /\ Len(out) = 1

\* The metadata lines of the recognized comments among lines k..Len(lines)
\* of an ASS file, in the order of the comments: one line for each comment
\* read after the column header from which the extractor yields an entry.
RECURSIVE C18_MetadataFrom(_, _)
C18_MetadataFrom(lines, k) ==
    IF k > Len(lines) THEN <<>>
    ELSE (IF AfterFormat(lines, k) /\ META_COMMENT_REGEX(lines[k]).ok
          THEN parse_ass_metadata_text(META_COMMENT_REGEX(lines[k]).text)
          ELSE <<>>)
         \o C18_MetadataFrom(lines, k + 1)

C18_Timed(line) ==
    IF driver = "ass2qrc" THEN QRC_TIMESTAMP_REGEX(line).ok
    ELSE LYS_PROPERTY_REGEX(line).ok

\* C18: the output of ASS->QRC and of ASS->LYS starts with the metadata
\* lines of the recognized comments of the input, one for each, in the order
\* of the comments wherever the comments are among the dialogue lines, and
\* every line after them is a timed line.
C18_MetadataFirst ==
    (ReadsAss(driver) /\ pc = "done" /\ result # "Err") =>
        LET meta == C18_MetadataFrom(input, 1)
        IN  /\ Len(out) >= Len(meta)
            /\ SubSeq(out, 1, Len(meta)) = meta
            /\ \A j \in 1..Len(out) : C18_Timed(out[j]) = (j > Len(meta))

\* A file with a dialogue line before two comments of different keys was
\* converted by ASS->QRC.
C18_Witness ==
    /\ driver = "ass2qrc" /\ stage = 1 /\ pc = "done"
    /\ Len(input) = 4
    /\ IsDialogueAt(input, 2)
    /\ out = <<"[al:LP]", "[ti:Song]", "[1000,1000]ab(1000,500)cd(1500,500)">>

\* The four known keys and their tags.
C19_Tags ==
    { <<"musicName", "ti">>, <<"artists", "ar">>, <<"album", "al">>,
      <<"ttmlAuthorGithubLogin", "by">> }

\* The positions of the colons of text.
C19_Colons(text) == { p \in 1..Len(text) : At(text, p) = ":" }

\* C19: parse_ass_metadata_text splits the text at its first colon into key
\* and value, yields the entry [tag:value] for the keys musicName, artists,
\* album and ttmlAuthorGithubLogin with the tags ti, ar, al and by, and
\* yields nothing, and logs nothing, for any other key, for a value empty
\* after trimming and for a text without colon.
C19_MetadataExtractor ==
    (call.pc = "done") =>
        IF C19_Colons(call.text) = {} THEN call.ret = <<>>
        ELSE LET first == CHOOSE p \in C19_Colons(call.text) :
                              \A q \in C19_Colons(call.text) : p <= q
                 key   == trim(Sub(call.text, 1, first - 1))
                 value == trim(From(call.text, first + 1))
                 tags  == { kt[2] : kt \in { p \in C19_Tags : p[1] = key } }
             IN  IF tags = {} \/ value = "" THEN call.ret = <<>>
                 ELSE \E tag \in tags :
                         call.ret = << "[" \o tag \o ":" \o value \o "]" >>

\* A text with a key between white space and a colon in its value gave an
\* entry.
C19_Witness ==
    /\ call.pc = "done"
    /\ call.text = " album  :\ta:b"
    /\ call.ret = <<"[al:a:b]">>

\* The line under reconstruction once all its tokens are done.
RECURSIVE C20_Done(_)
C20_Done(r) == IF r.time_tags = <<>> THEN r ELSE C20_Done(ReconstructToken(r))

\* The characters of content outside its inline timestamps.
RECURSIVE C20_TextLen(_, _)
C20_TextLen(content, tags) ==
    IF tags = <<>> THEN Len(content)
    ELSE C20_TextLen(content, Tail(tags))
             - (Head(tags).end_pos - Head(tags).start_pos)

\* The line has no tokens at all, or no text and every K-value zero.
C20_Silent(content, tags) ==
    \/ tags = <<>>
    \/ /\ C20_TextLen(content, tags) = 0
       /\ \A k \in 1..Len(tags) : (tags[k].duration_ms + 5) \div 10 = 0

\* The Dialogue lines a QRC line stands for: none when the line is not a
\* timed line, when a number of it does not parse, when it has no tokens or
\* no text and only K-values of zero, or when its reconstructed text is
\* empty, one otherwise.
C20_OfQrc(line) ==
    LET ts == QRC_TIMESTAMP_REGEX(line)
    IN  IF ~ts.ok THEN <<>>
        ELSE LET content == From(line, ts.end_pos)
                 start   == ParseUsize(ts.start)
                 dur     == ParseUsize(ts.duration)
                 parsed  == ParseWordTags(WORD_TIME_TAG_REGEX(content))
             IN  IF ~start.ok \/ ~dur.ok \/ ~parsed.ok THEN <<>>
                 ELSE IF C20_Silent(content, parsed.tags) THEN <<>>
                 ELSE LET r == C20_Done(
                                [header_start_ms    |-> start.v,
                                 header_end_ms      |-> saturating_add(start.v, dur.v),
                                 property           |-> 0,
                                 content_part       |-> content,
                                 time_tags          |-> SortByPos(SelectSeq(parsed.tags,
                                                            LAMBDA t : t.duration_ms # 0)),
                                 ass_text_builder   |-> "",
                                 last_word_end_ms   |-> start.v,
                                 current_char_index |-> 1])
                      IN  IF QrcFinalText(r) = "" THEN <<>>
                          ELSE <<DialogueLine(r.header_start_ms, r.header_end_ms,
                                              "", QrcFinalText(r))>>

\* The same of a LYS line, which stands for no line when it has no token.
C20_OfLys(line) ==
    LET caps == LYS_PROPERTY_REGEX(line)
    IN  IF ~caps.ok THEN <<>>
        ELSE LET parsed == ParseWordTags(WORD_TIME_TAG_REGEX(caps.content))
                 prop   == ParseUsize(caps.property)
             IN  IF ~parsed.ok THEN <<>>
                 ELSE IF C20_Silent(caps.content, parsed.tags) THEN <<>>
                 ELSE LET r == C20_Done(
                                [header_start_ms    |-> MinStartMs(parsed.tags),
                                 header_end_ms      |-> MaxEndMs(parsed.tags),
                                 property           |-> IF prop.ok THEN prop.v
                                                        ELSE LYS_PROPERTY_UNSET,
                                 content_part       |-> caps.content,
                                 time_tags          |-> SortByPos(parsed.tags),
                                 ass_text_builder   |-> "",
                                 last_word_end_ms   |-> MinStartMs(parsed.tags),
                                 current_char_index |-> 1])
                      IN  IF LysFinalText(r) = "" THEN <<>>
                          ELSE <<DialogueLine(r.header_start_ms, r.header_end_ms,
                                              AssNameOf(r.property), LysFinalText(r))>>

RECURSIVE C20_Expected(_, _)
C20_Expected(lines, k) ==
    IF k > Len(lines) THEN <<>>
    ELSE (IF driver = "qrc2ass" THEN C20_OfQrc(lines[k]) ELSE C20_OfLys(lines[k]))
         \o C20_Expected(lines, k + 1)

\* C20: when QRC->ASS or LYS->ASS is between two lines or at its end, what it
\* has written after the ASS header is, in the order of the input, one
\* Dialogue line for each matched source line read and none for those whose
\* reconstructed text is empty, which are those with no tokens at all and
\* those with no text and every K-value zero; no Dialogue line written has
\* an empty text.
C20_NoEmptyDialogue ==
    (driver \in {"qrc2ass", "lys2ass"} /\ pc \in {"read", "done"}) =>
        /\ out = AssHeader \o C20_Expected(input, 1)
        /\ \A j \in (Len(AssHeader) + 1)..Len(out) :
              /\ ASS_DIALOGUE_REGEX(out[j]).ok
              /\ ASS_DIALOGUE_REGEX(out[j]).text # ""

\* The decimal digits of s read as a number.
RECURSIVE C21_Number(_)
C21_Number(s) ==
    IF s = "" THEN 0
    ELSE 10 * C21_Number(Sub(s, 1, Len(s) - 1))
             + (CHOOSE d \in 0..9 : ToString(d) = At(s, Len(s)))

\* C21: the string milliseconds_to_time gives for ms is hours, a colon, two
\* digits of minutes, a colon, two digits of seconds, a point and two
\* digits of centiseconds, with hours = ms div 3600000, minutes below 60,
\* seconds below 60 and centiseconds = (ms mod 1000) div 10; the instant it
\* encodes is ms - (ms mod 10), never one above ms.
C21_FieldsTruncate ==
    (codec.pc \in {"parse", "done"}) =>
        LET parts == SplitOn(codec.time_str, {":", "."})
            ms    == codec.ms
        IN  /\ Len(parts) = 4
            /\ codec.time_str = parts[1] \o ":" \o parts[2] \o ":" \o parts[3]
                                    \o "." \o parts[4]
            /\ parts[1] = ToString(ms \div 3600000)
            /\ Len(parts[2]) = 2 /\ Len(parts[3]) = 2 /\ Len(parts[4]) = 2
            /\ C21_Number(parts[2]) < 60
            /\ C21_Number(parts[3]) < 60
            /\ C21_Number(parts[4]) = (ms % 1000) \div 10
            /\ C21_Number(parts[4]) < 100
            /\ C21_Number(parts[1]) * 3600000 + C21_Number(parts[2]) * 60000
                   + C21_Number(parts[3]) * 1000 + C21_Number(parts[4]) * 10
                   = ms - (ms % 10)

\* The last millisecond of the hundred-and-first hour was formatted.
C21_Witness ==
    /\ codec.pc = "parse"
    /\ codec.ms = 100 * 3600000 + 59 * 60000 + 59 * 1000 + 999
    /\ codec.time_str = "100:59:59.99"

\* The lines of out that are equal to line.
C22_Count(line) == Cardinality({ j \in 1..Len(out) : out[j] = line })

\* C22: once QRC->ASS or LYS->ASS has created its output, whatever it has
\* read, the output starts with the ten lines of the script-info and style
\* block and of the [Events] section with its column header, as
\* write_ass_header writes them, every line after them is a Dialogue line,
\* and each of the ten lines that is not empty is there once.
C22_HeaderOnceFirst ==
    (driver \in {"qrc2ass", "lys2ass"} /\ pc # "start") =>
        /\ created
        /\ Len(out) >= 10
        /\ out[1] = "[Script Info]"
        /\ out[2] = "PlayResX: 1920"
        /\ out[3] = "PlayResY: 1440"
        /\ out[4] = ""
        /\ out[5] = "[V4+ Styles]"
        /\ out[6] = "Format: Name, Fontname, Fontsize, PrimaryColour, SecondaryColour, OutlineColour, BackColour, Bold, Italic, Underline, StrikeOut, ScaleX, ScaleY, Spacing, Angle, BorderStyle, Outline, Shadow, Alignment, MarginL, MarginR, MarginV, Encoding"
        /\ out[7] = "Style: Default,￥ﾾﾮ￨ﾽﾯ￩ﾛﾅ￩ﾻﾑ,100,&H00FFFFFF,&H004E503F,&H00000000,&H00000000,0,0,0,0,100,100,0,0,1,1.5,0.5,2,10,10,60,1"  \* 微 U+5FAE, 软 U+8F6F, 雅 U+96C5, 黑 U+9ED1
        /\ out[8] = ""
        /\ out[9] = "[Events]"
        /\ out[10] = "Format: Layer, Start, End, Style, Name, MarginL, MarginR, MarginV, Effect, Text"
        /\ \A j \in 11..Len(out) : StartsWith(out[j], "Dialogue: ")
        /\ \A j \in {1, 2, 3, 5, 6, 7, 9, 10} : C22_Count(out[j]) = 1

\* QRC->ASS ended on a file with no convertible line: the output is the ten
\* lines alone.
C22_Witness ==
    /\ driver = "qrc2ass" /\ stage = 1 /\ pc = "done"
    /\ input = <<"[ti:Song]">>
    /\ Len(out) = 10
    /\ out[9] = "[Events]"

\* C23: execute_conversion returns true when the conversion failed with an
\* error and when it completed reporting warnings, and false only when the
\* conversion succeeded without warnings.
C23_PauseOnErrorOrWarning ==
    (call.pc = "returned") =>
        /\ result \in {"Err", "Ok(true)"} => call.ret = TRUE
        /\ call.ret = FALSE => result = "Ok(false)"

\* A dialogue pass 2 of ASS->LYS leaves out.
C24_Excluded(d) == d.style = "ts" \/ d.style = "trans"

\* The property codes pass 2 gives to the dialogues k..Len(dialogues) that
\* it does not leave out, last being the code calculated last.
RECURSIVE C24_Codes(_, _, _)
C24_Codes(dialogues, k, last) ==
    IF k > Len(dialogues) THEN <<>>
    ELSE IF C24_Excluded(dialogues[k]) THEN C24_Codes(dialogues, k + 1, last)
    ELSE LET p == calculate_lys_property(
                      dialogues[k],
                      IF k > 1 THEN <<dialogues[k - 1]>> ELSE <<>>,
                      last).property
         IN  <<ToString(p)>> \o C24_Codes(dialogues, k + 1, p)

\* The property codes at the heads of the lines ASS->LYS has written.
C24_Written ==
    [ j \in 1..(Len(out) - Len(metadata_lines)) |->
        LYS_PROPERTY_REGEX(out[Len(metadata_lines) + j]).property ]

\* C24: when ASS->LYS has ended, the property codes of the lines it has
\* written are those it writes for the same dialogues with the lines of
\* style ts and trans deleted.
C24_ExcludedNoInfluence ==
    (driver = "ass2lys" /\ pc = "done" /\ result # "Err") =>
        /\ C24_Written = C24_Codes(parsed_dialogues, 1, LYS_PROPERTY_UNSET)
        /\ C24_Written
               = C24_Codes(SelectSeq(parsed_dialogues, LAMBDA d : ~C24_Excluded(d)),
                           1, LYS_PROPERTY_UNSET)

\* C25: every line ASS->LYS has written for a dialogue whose role is
\* classified Background carries the code 6, 7 or 8.
C25_BackgroundCodes ==
    InPass2 =>
        \A k \in 1..i :
            (C4_Emitted(k) /\ C4_Background(k)) => C4_CodeOf(k) \in {"6", "7", "8"}

\* The tokens follow one another in time without overlap, from the start of
\* the line on to its end at most.
RECURSIVE C26_InOrder(_, _, _)
C26_InOrder(tags, from_ms, end_ms) ==
    IF tags = <<>> THEN from_ms <= end_ms
    ELSE /\ Head(tags).start_ms >= from_ms
         /\ C26_InOrder(Tail(tags),
                        Head(tags).start_ms + Head(tags).duration_ms, end_ms)

\* The line under reconstruction has its start, its end and the start and
\* duration of each of its tokens on the 10 ms grid, and its tokens in
\* order.
C26_Regular(r) ==
    LET tags == ParseWordTags(WORD_TIME_TAG_REGEX(r.content_part)).tags
    IN  /\ tags # <<>>
        /\ r.header_start_ms % 10 = 0
        /\ r.header_end_ms % 10 = 0
        /\ \A k \in 1..Len(tags) :
              tags[k].start_ms % 10 = 0 /\ tags[k].duration_ms % 10 = 0
        /\ C26_InOrder(tags, r.header_start_ms, r.header_end_ms)

\* The Dialogue line written starts and ends at the start and end of the
\* line under reconstruction r, and 10 times the sum of the K-values of its
\* text is its end minus its start: check_time_consistency finds no
\* mismatch in it.
C26_Consistent(r, dialogue_line) ==
    LET p    == parse_ass_dialogue_line(dialogue_line, 0)
        caps == ASS_DIALOGUE_REGEX(dialogue_line)
    IN  /\ p.tag = "Some"
        /\ time_to_milliseconds(caps.start_time).v = r.header_start_ms
        /\ time_to_milliseconds(caps.end_time).v = r.header_end_ms
        /\ r.header_end_ms >= r.header_start_ms
        /\ p.d.sum_k_ms = r.header_end_ms - r.header_start_ms
        /\ check_time_consistency(p.d.duration_ms, p.d.sum_k_ms, 0).ok

\* C26 as the spec states it: the Dialogue line QRC->ASS or LYS->ASS writes
\* for a line on the 10 ms grid with its tokens in order is time-consistent.
C26_TimeConsistentAnyText ==
    [][ (/\ driver \in {"qrc2ass", "lys2ass"}
         /\ pc = "emit" /\ rec.time_tags = <<>>
         /\ C26_Regular(rec)
         /\ Len(out') = Len(out) + 1) =>
            C26_Consistent(rec, Last(out'))
      ]_vars

\* C26: the Dialogue line QRC->ASS or LYS->ASS writes for a line on the
\* 10 ms grid with its tokens in order and no brace in its text is
\* time-consistent; the text between the tokens is copied as it is, and a
\* karaoke tag written in it adds its K-value to the sum.
C26_TimeConsistentOutput ==
    [][ (/\ driver \in {"qrc2ass", "lys2ass"}
         /\ pc = "emit" /\ rec.time_tags = <<>>
         /\ C26_Regular(rec)
         /\ Find(rec.content_part, "{", 1) = 0
         /\ Len(out') = Len(out) + 1) =>
            C26_Consistent(rec, Last(out'))
      ]_vars

\* QRC->ASS wrote the line of a QRC line with a gap before each of its two
\* tokens and after the last.
C26_Witness ==
    /\ driver = "qrc2ass" /\ stage = 1 /\ pc = "read"
    /\ input # <<>>
    /\ Last(input) = "[500,2500]word1(1000,500)word2(2000,500)"
    /\ Len(out) > Len(AssHeader)
    /\ ASS_DIALOGUE_REGEX(Last(out)).text = "{\\k50}{\\k50}word1{\\k50}{\\k50}word2{\\k50}"

\* The segments that are not both of empty text and of duration 0.
C27_Kept(segments) == SelectSeq(segments, LAMBDA sg : sg[1] # "" \/ sg[2] > 0)

\* The sum of the durations of the first n segments.
RECURSIVE C27_Elapsed(_, _)
C27_Elapsed(segments, n) ==
    IF n = 0 THEN 0 ELSE C27_Elapsed(segments, n - 1) + segments[n][2]

\* Tokens j..Len(kept), token j starting at the start of the line plus the
\* durations of the tokens before it.
RECURSIVE C27_Tokens(_, _, _)
C27_Tokens(kept, start_ms, j) ==
    IF j > Len(kept) THEN ""
    ELSE kept[j][1] \o "(" \o ToString(start_ms + C27_Elapsed(kept, j - 1)) \o ","
             \o ToString(kept[j][2]) \o ")" \o C27_Tokens(kept, start_ms, j + 1)

\* The tokens of dialogue d are contiguous from the start of the line to
\* its start plus the sum of its segments.
C27_Contiguous(tokens, d) ==
    /\ tokens = C27_Tokens(C27_Kept(d.segments), d.start_ms, 1)
    /\ d.start_ms + C27_Elapsed(C27_Kept(d.segments), Len(C27_Kept(d.segments)))
           = d.start_ms + d.sum_k_ms

\* C27: the line ASS->QRC or ASS->LYS writes for a dialogue holds, after its
\* header, one token for each segment that is not both of empty text and of
\* duration 0, the first starting at the start of the line and each other
\* at the start of the one before it plus its duration, so that the last
\* ends at start_ms + sum_k_ms.
C27_ContiguousTokens ==
    [][ /\ (/\ driver = "ass2qrc" /\ pc = "read"
            /\ Len(output_qrc_lines') = Len(output_qrc_lines) + 1) =>
               C27_Contiguous(
                   From(Last(output_qrc_lines'),
                        QRC_TIMESTAMP_REGEX(Last(output_qrc_lines')).end_pos),
                   parse_ass_dialogue_line(Last(input'), line_number').d)
        /\ (/\ driver = "ass2lys" /\ pc = "pass2"
            /\ Len(out') = Len(out) + 1) =>
               C27_Contiguous(LYS_PROPERTY_REGEX(Last(out')).content,
                              parsed_dialogues[i + 1])
      ]_vars

\* ASS->LYS wrote the line of a dialogue whose first two segments have no
\* text and no duration.
C27_Witness ==
    /\ driver = "ass2lys" /\ stage = 1 /\ pc = "done"
    /\ Len(parsed_dialogues) = 1
    /\ Len(parsed_dialogues[1].segments) = 3
    /\ Len(C27_Kept(parsed_dialogues[1].segments)) = 2
    /\ out = <<"[4]q(5000,0)(5000,900)">>

\* Every number of the line parses into a usize: the fields of its two
\* times and its K counts.
C28_FieldsParse(line) ==
    LET caps  == ASS_DIALOGUE_REGEX(line)
        parts == SplitOn(caps.start_time, {":", "."})
                     \o SplitOn(caps.end_time, {":", "."})
        ks    == K_TAG_REGEX(caps.text)
    IN  /\ caps.ok
        /\ \A k \in 1..Len(parts) : ParseUsizeBytes(parts[k]).ok
        /\ \A k \in 1..Len(ks) : ParseUsizeBytes(ks[k].k_cs).ok

\* C28: on a dialogue line whose numbers all parse into a usize, the parser
\* and the token loop of the emitters compute the products of the time
\* fields, the K counts times 10, the sum of the K durations and the starts
\* of the tokens with no overflow: no result wraps and nothing panics.
C28_NoOverflow ==
    (call.pc # "call" /\ C28_FieldsParse(call.line)) =>
        (call.over = {} /\ call.tag = "Ok")

\* The output file of ASS->LYS is as it was before the conversion.
C29_Untouched == ~created /\ out = <<>>

\* Pass 1 of ASS->LYS is over and has returned no error.
C29_Pass1Read ==
    /\ pc \in {"pass2", "done", "returned"}
    /\ result # "Err"
    /\ stage = 2 => pending = <<>>

\* C29: ASS->LYS creates and writes its output only once pass 1 has read the
\* whole input: while pass 1 reads, and after it has aborted with an error,
\* the output is neither created nor written, and once the output is
\* created or written no line of the input is read any more.
C29_OutputAfterPass1 ==
    [][ /\ (driver = "ass2lys" /\ ~C29_Untouched) => C29_Pass1Read
        /\ (driver' = "ass2lys" /\ ~C29_Untouched') => C29_Pass1Read'
        /\ (driver = "ass2lys" /\ ~C29_Untouched /\ driver' = driver
                /\ stage' = stage) => input' = input
        /\ (driver = "ass2lys" /\ pc = "read" /\ result' = "Err") =>
               (C29_Untouched /\ C29_Untouched')
      ]_vars

\* Pass 1 of ASS->LYS has aborted on its fourth line, after a metadata line
\* it had collected: there is no output file.
C29_Witness ==
    /\ driver = "ass2lys" /\ stage = 1 /\ pc = "done"
    /\ result = "Err"
    /\ Len(input) = 4
    /\ metadata_lines # <<>>
    /\ parsed_dialogues # <<>>
    /\ C29_Untouched

\* Line k of the file is a Dialogue line after the column header whose Name
\* the role classifier puts in another category than Other.
C30_RecognizedRoleAt(lines, k) ==
    LET caps == ASS_DIALOGUE_REGEX(lines[k])
    IN  /\ AfterFormat(lines, k)
        /\ StartsWith(lines[k], "Dialogue:")
        /\ caps.ok
        /\ map_ass_name_to_category(
               IF caps.name = "" THEN <<>> ELSE <<caps.name>>).category # "Other"

\* C30: check_ass_has_special_names returns true exactly when some Dialogue
\* line after the column header has a Name that map_ass_name_to_category
\* classifies as LeftV1, RightV2 or Background, that is, not as Other.
C30_AgreesWithClassifier ==
    call.pc = "done" =>
        (call.ret <=> \E k \in 1..Len(call.lines) :
                          C30_RecognizedRoleAt(call.lines, k))

=============================================================================
